---- MODULE Spec2Model ----
(***************************************************************************)
(* Model of the finalscrap repository: the DynamicWebCrawler scheduler     *)
(* (finalcall/dynamic_crawler_working_3page.py), its URL classifier and    *)
(* dynamic discovery, and the page identifier of the component analyzer.   *)
(*                                                                         *)
(* Text is modelled as sequences of one-character strings, so that         *)
(* urlparse, str.lower, str.endswith, the `in` substring test and re.sub   *)
(* are computed character by character as the library computes them.       *)
(***************************************************************************)
EXTENDS Integers, Sequences, FiniteSets, TLC

(***************************************************************************)
(* Bounds of the model (not program constants).                            *)
(***************************************************************************)
\* number of ordinary pages of the modelled site: pages 0 .. NumPages-1
NumPages == 4
\* max_pages is drawn from 1 .. MaxPagesBound
MaxPagesBound == 3
\* in limited mode max_depth is drawn from 0 .. MaxDepthBound
MaxDepthBound == 1
\* links 1 .. NumDynLinks may appear on the rendered page after interaction
NumDynLinks == 2
\* links NumDynLinks+1 .. NumDynLinks+NumFeedLinks are loaded by scrolling only
NumFeedLinks == 3
\* the rendered page carries at most MaxNumbered numbered pagination elements
MaxNumbered == 12
\* the element query of handle_other_interactions returns at most MaxButtons
MaxButtons == 1
\* sessions left open that the model follows
MaxLeaks == 1
\* lengths of the long url paths given to create_page_identifier
LongPathLen == 101
NearPathLen == 95

(***************************************************************************)
(* Text helpers: Python str operations on character sequences.             *)
(***************************************************************************)
UpperChars == <<"A","B","C","D","E","F","G","H","I","J","K","L","M","N","O","P","Q","R","S","T","U","V","W","X","Y","Z">>
LowerChars == <<"a","b","c","d","e","f","g","h","i","j","k","l","m","n","o","p","q","r","s","t","u","v","w","x","y","z">>
DigitChars == <<"0","1","2","3","4","5","6","7","8","9">>

Range(s) == {s[i] : i \in 1..Len(s)}

\* str.lower on one character
LowerChar(c) ==
    IF c \in Range(UpperChars)
    THEN LowerChars[CHOOSE i \in 1..Len(UpperChars) : UpperChars[i] = c]
    ELSE c

\* str.lower
Lower(s) == [i \in 1..Len(s) |-> LowerChar(s[i])]

\* str.endswith
EndsWith(s, suf) ==
    /\ Len(suf) <= Len(s)
    /\ SubSeq(s, Len(s) - Len(suf) + 1, Len(s)) = suf

\* str.startswith
StartsWith(s, pre) ==
    /\ Len(pre) <= Len(s)
    /\ SubSeq(s, 1, Len(pre)) = pre

\* the substring test `sub in s`
Contains(s, sub) ==
    \E i \in 1..(Len(s) - Len(sub) + 1) : SubSeq(s, i, i + Len(sub) - 1) = sub

\* str.find for a set of characters: index of the first character of s that
\* is in cs, or 0 when there is none
FindAny(s, cs) ==
    IF \E i \in 1..Len(s) : s[i] \in cs
    THEN CHOOSE i \in 1..Len(s) : s[i] \in cs /\ \A j \in 1..(i-1) : s[j] \notin cs
    ELSE 0

\* the tail of s from index i on
From(s, i) == SubSeq(s, i, Len(s))

(***************************************************************************)
(* urllib.parse.urlparse as the crawler calls it, on the characters the    *)
(* model uses (no ';' parameters, no control characters).                  *)
(***************************************************************************)
IsAlpha(c) == c \in Range(UpperChars) \cup Range(LowerChars)
SchemeChars == Range(UpperChars) \cup Range(LowerChars) \cup Range(DigitChars) \cup {"+", "-", "."}

\* length of the scheme of url (0 when url has none): the text before the
\* first ':' when it starts with a letter and holds only scheme characters
SchemeLen(url) ==
    LET i == FindAny(url, {":"})
    IN  IF /\ i > 1
           /\ IsAlpha(url[1])
           /\ \A j \in 1..(i-1) : url[j] \in SchemeChars
        THEN i - 1
        ELSE 0

\* urlsplit raises ValueError("Invalid IPv6 URL") on an unbalanced bracket
NetlocRaises(netloc) ==
    \/ ("[" \in Range(netloc) /\ "]" \notin Range(netloc))
    \/ ("]" \in Range(netloc) /\ "[" \notin Range(netloc))

\* urlsplit, last stage: the query is what follows the first '?'
SplitQuery(scheme, netloc, rest, frag, q) ==
    [scheme |-> scheme, netloc |-> netloc,
     path |-> IF q = 0 THEN rest ELSE SubSeq(rest, 1, q - 1),
     query |-> IF q = 0 THEN << >> ELSE From(rest, q + 1),
     fragment |-> frag, raises |-> NetlocRaises(netloc)]

\* urlsplit: the fragment is what follows the first '#'
SplitFragment(scheme, netloc, rest, h) ==
    IF h = 0
    THEN SplitQuery(scheme, netloc, rest, << >>, FindAny(rest, {"?"}))
    ELSE SplitQuery(scheme, netloc, SubSeq(rest, 1, h - 1), From(rest, h + 1),
                    FindAny(SubSeq(rest, 1, h - 1), {"?"}))

\* urlsplit: after '//' the netloc runs to the first of '/', '?', '#'
SplitNetloc(scheme, afterSlashes, d) ==
    IF d = 0
    THEN SplitFragment(scheme, afterSlashes, << >>, 0)
    ELSE SplitFragment(scheme, SubSeq(afterSlashes, 1, d - 1), From(afterSlashes, d),
                       FindAny(From(afterSlashes, d), {"#"}))

\* urlsplit: what follows the scheme
SplitRest(scheme, rest) ==
    IF StartsWith(rest, <<"/", "/">>)
    THEN SplitNetloc(scheme, From(rest, 3), FindAny(From(rest, 3), {"/", "?", "#"}))
    ELSE SplitFragment(scheme, << >>, rest, FindAny(rest, {"#"}))

SplitScheme(url, n) ==
    IF n > 0
    THEN SplitRest(Lower(SubSeq(url, 1, n)), From(url, n + 2))
    ELSE SplitRest(<< >>, url)

urlparse(url) == SplitScheme(url, SchemeLen(url))

(***************************************************************************)
(* urllib.parse.urljoin as the link extraction calls it (line 397), for    *)
(* hrefs without '.', '..' or empty path segments.                         *)
(***************************************************************************)
uses_relative ==
    { <<>>, <<"f","t","p">>, <<"h","t","t","p">>, <<"g","o","p","h","e","r">>,
      <<"n","n","t","p">>, <<"i","m","a","p">>, <<"w","a","i","s">>,
      <<"f","i","l","e">>, <<"h","t","t","p","s">>, <<"s","h","t","t","p">>,
      <<"m","m","s">>, <<"p","r","o","s","p","e","r","o">>, <<"r","t","s","p">>,
      <<"r","t","s","p","s">>, <<"r","t","s","p","u">>, <<"s","f","t","p">>,
      <<"s","v","n">>, <<"s","v","n","+","s","s","h">>, <<"w","s">>,
      <<"w","s","s">> }

uses_netloc ==
    { <<>>, <<"f","t","p">>, <<"h","t","t","p">>, <<"g","o","p","h","e","r">>,
      <<"n","n","t","p">>, <<"t","e","l","n","e","t">>, <<"i","m","a","p">>,
      <<"w","a","i","s">>, <<"f","i","l","e">>, <<"m","m","s">>,
      <<"h","t","t","p","s">>, <<"s","h","t","t","p">>, <<"s","n","e","w","s">>,
      <<"p","r","o","s","p","e","r","o">>, <<"r","t","s","p">>,
      <<"r","t","s","p","s">>, <<"r","t","s","p","u">>, <<"r","s","y","n","c">>,
      <<"s","v","n">>, <<"s","v","n","+","s","s","h">>, <<"s","f","t","p">>,
      <<"n","f","s">>, <<"g","i","t">>, <<"g","i","t","+","s","s","h">>,
      <<"w","s">>, <<"w","s","s">> }

\* str.rfind for one character: index of the last c in s, or 0
LastIndex(s, c) ==
    IF c \in Range(s)
    THEN CHOOSE i \in 1..Len(s) : s[i] = c /\ \A j \in (i+1)..Len(s) : s[j] # c
    ELSE 0

\* urlunsplit: the netloc is put before the path
AddNetloc(scheme, netloc, path) ==
    IF \/ netloc # << >>
       \/ (scheme # << >> /\ scheme \in uses_netloc /\ ~StartsWith(path, <<"/", "/">>))
    THEN <<"/", "/">> \o netloc
            \o (IF path # << >> /\ path[1] # "/" THEN <<"/">> \o path ELSE path)
    ELSE path

AddScheme(scheme, u) == IF scheme # << >> THEN scheme \o <<":">> \o u ELSE u
AddQuery(u, query) == IF query # << >> THEN u \o <<"?">> \o query ELSE u
AddFragment(u, fragment) == IF fragment # << >> THEN u \o <<"#">> \o fragment ELSE u

\* urlunparse of the components (without ';' parameters)
urlunparse(scheme, netloc, path, query, fragment) ==
    AddFragment(AddQuery(AddScheme(scheme, AddNetloc(scheme, netloc, path)), query),
                fragment)

\* urljoin: the relative path is resolved against the directory of the base
\* path (a path starting with '/' replaces the base path)
ResolvedPath(bpath, path) ==
    IF path[1] = "/" THEN path
    ELSE IF LastIndex(bpath, "/") = 0 THEN <<"/">> \o path
    ELSE SubSeq(bpath, 1, LastIndex(bpath, "/")) \o path

\* urljoin after both parses: b is the parsed base, scheme the scheme of url
\* with the base scheme as default, u the parsed url
JoinParsed(b, scheme, u, url) ==
    IF scheme # b.scheme \/ scheme \notin uses_relative THEN url
    ELSE IF scheme \in uses_netloc /\ u.netloc # << >>
    THEN urlunparse(scheme, u.netloc, u.path, u.query, u.fragment)
    ELSE IF u.path = << >>
    THEN urlunparse(scheme, IF scheme \in uses_netloc THEN b.netloc ELSE u.netloc,
                    b.path, IF u.query = << >> THEN b.query ELSE u.query, u.fragment)
    ELSE urlunparse(scheme, IF scheme \in uses_netloc THEN b.netloc ELSE u.netloc,
                    ResolvedPath(b.path, u.path), u.query, u.fragment)

JoinDefaultScheme(b, u, url) ==
    JoinParsed(b, IF u.scheme = << >> THEN b.scheme ELSE u.scheme, u, url)

\* urljoin(base, url) for a non-empty base; it raises where urlparse raises
urljoin(base, url) ==
    IF url = << >> THEN base ELSE JoinDefaultScheme(urlparse(base), urlparse(url), url)

urljoinRaises(base, url) == url # << >> /\ urlparse(url).raises

(***************************************************************************)
(* DynamicWebCrawler.is_valid_url                                          *)
(***************************************************************************)
skip_extensions ==
    { <<".","p","d","f">>, <<".","j","p","g">>, <<".","j","p","e","g">>,
      <<".","p","n","g">>, <<".","g","i","f">>, <<".","z","i","p">>,
      <<".","d","o","c">>, <<".","d","o","c","x">> }

skip_paths ==
    { <<"/","a","d","m","i","n">>, <<"/","l","o","g","i","n">>,
      <<"/","l","o","g","o","u","t">>, <<"/","a","p","i","/">>,
      <<"/","d","o","w","n","l","o","a","d">> }

\* a mutant of ValidParsed: the skip_paths test of lines 491-494 is left out
ValidParsedNoSkipPaths(url, parsed, dom) ==
    IF parsed.raises THEN FALSE
    ELSE IF parsed.netloc # << >> /\ parsed.netloc # dom THEN FALSE
    ELSE IF \E e \in skip_extensions : EndsWith(Lower(url), e) THEN FALSE
    ELSE TRUE

\* the body of is_valid_url: parsed is urlparse(url), dom is self.domain;
\* a ValueError of urlparse is caught by the bare except and gives False
ValidParsed(url, parsed, dom) ==
    IF parsed.raises THEN FALSE
    ELSE IF parsed.netloc # << >> /\ parsed.netloc # dom THEN FALSE
    ELSE IF \E e \in skip_extensions : EndsWith(Lower(url), e) THEN FALSE
    ELSE IF \E p \in skip_paths : Contains(Lower(url), p) THEN FALSE
    ELSE TRUE

\* is_valid_url(url) of a crawler whose self.domain is dom
is_valid_url(url, dom) == ValidParsed(url, urlparse(url), dom)

\* DynamicWebCrawler.detect_needs_selenium
dynamic_indicators ==
    { <<"/","s","e","a","r","c","h">>, <<"/","c","a","t","e","g","o","r","y">>,
      <<"/","p","r","o","d","u","c","t","s">>, <<"/","a","r","t","i","c","l","e","s">>,
      <<"/","n","e","w","s">>, <<"/","b","l","o","g">> }

detect_needs_selenium(url) ==
    \E ind \in dynamic_indicators : Contains(Lower(url), ind)

(***************************************************************************)
(* The crawled site.  A URL is identified by a page number; PageUrl gives  *)
(* its text.  Pages 0 .. NumPages-1 are ordinary pages of the site, the    *)
(* others are the targets a page may link to that the URL classifier has   *)
(* to judge.                                                               *)
(***************************************************************************)
Home == <<"h","t","t","p",":","/","/","s",".","i","o","/">>

LoginPage    == NumPages
ExternalPage == NumPages + 1
MailLink     == NumPages + 2
PdfFile      == NumPages + 3
BlogPage     == NumPages + 4
\* three more pages of the site, for the site "fan"
FanD         == NumPages + 5
FanE         == NumPages + 6
FanU         == NumPages + 7

Ordinary == 0..(NumPages - 1)
AllPages == 0..FanU

RECURSIVE Repeat(_, _)
Repeat(c, n) == IF n = 0 THEN << >> ELSE <<c>> \o Repeat(c, n - 1)

\* the absolute URL (after urljoin) of a page
PageUrl(p) ==
    IF p \in Ordinary THEN Home \o Repeat("p", p)
    ELSE IF p = LoginPage THEN Home \o <<"l","o","g","i","n">>
    ELSE IF p = ExternalPage THEN <<"h","t","t","p",":","/","/","o",".","i","o","/">>
    ELSE IF p = MailLink THEN <<"m","a","i","l","t","o",":","a","@","s",".","i","o">>
    ELSE IF p = PdfFile THEN Home \o <<"f",".","p","d","f">>
    ELSE IF p = FanD THEN Home \o <<"d">>
    ELSE IF p = FanE THEN Home \o <<"e">>
    ELSE IF p = FanU THEN Home \o <<"u">>
    ELSE Home \o <<"b","l","o","g">>

Sites == {"complete", "chain", "diamond", "portal"}

\* The site "fan": the start page links to four pages (1, 2, 3, d), page 1
\* to e, d and e both to u, and u to the blog page, which links back.  Its
\* second batch holds d, found by the start page, and e, found by page 1.
FanHrefs(p) ==
    IF p = 0 THEN {1, 2, 3, FanD}
    ELSE IF p = 1 THEN {FanE}
    ELSE IF p \in {FanD, FanE} THEN {FanU}
    ELSE IF p = FanU THEN {BlogPage}
    ELSE IF p = BlogPage THEN {0}
    ELSE {}

\* the a[href] targets in the static markup of page p
Hrefs(s, p) ==
    IF s = "fan" THEN FanHrefs(p)
    ELSE IF s = "complete" THEN (IF p \in Ordinary THEN Ordinary \ {p} ELSE {})
    ELSE IF s = "chain" THEN (IF p \in Ordinary /\ p + 1 \in Ordinary THEN {p + 1} ELSE {})
    ELSE IF s = "diamond" THEN (IF p = 0 THEN {1, 2}
                                ELSE IF p \in {1, 2} THEN {3}
                                ELSE IF p \in Ordinary THEN {0, p + 1} \cap Ordinary
                                ELSE {})
    ELSE IF p = 0 THEN {1, 2, LoginPage, ExternalPage, MailLink, PdfFile, BlogPage}
    ELSE IF p = BlogPage THEN {0, 1}
    ELSE IF p = LoginPage THEN {0, 2}
    ELSE IF p = 1 THEN {0, BlogPage}
    ELSE {}

\* the a[href] targets that appear on page p only after interaction
DynHrefs(s, p) ==
    IF s = "portal" /\ p = BlogPage THEN {3, LoginPage, ExternalPage} ELSE {}

\* the base_url values the model starts a crawl from
Seeds(s) == IF s = "portal" THEN {0, LoginPage} ELSE {0}

(***************************************************************************)
(* The href attributes a page's markup may carry: a prefix, a body, an     *)
(* extension and a tail, plus the empty href and one with a bad netloc.    *)
(***************************************************************************)
HrefPrefixes ==
    { <<>>,
      <<"/">>,
      <<"h","t","t","p",":","/","/","s",".","i","o","/">>,
      <<"h","t","t","p","s",":","/","/","s",".","i","o","/">>,
      <<"h","t","t","p",":","/","/","o",".","i","o","/">>,
      <<"/","/","o",".","i","o","/">>,
      <<"H","T","T","P",":","/","/","S",".","I","O","/">>,
      <<"m","a","i","l","t","o",":">>,
      <<"j","a","v","a","s","c","r","i","p","t",":">> }

HrefBodies ==
    { <<"a">>,
      <<"a","d","m","i","n">>,
      <<"x","/","l","o","g","i","n">>,
      <<"l","o","g","o","u","t">>,
      <<"a","p","i","/","v">>,
      <<"a","p","i">>,
      <<"d","o","w","n","l","o","a","d">>,
      <<"A","D","M","I","N">>,
      <<"f">> }

HrefExtensions ==
    { <<>>,
      <<".","p","d","f">>, <<".","j","p","g">>, <<".","j","p","e","g">>,
      <<".","p","n","g">>, <<".","g","i","f">>, <<".","z","i","p">>,
      <<".","d","o","c">>, <<".","d","o","c","x">>, <<".","x","l","s">>,
      <<".","x","l","s","x">>, <<".","P","D","F">>, <<".","h","t","m","l">> }

HrefTails ==
    { <<>>,
      <<"?","v","=","1">>,
      <<"#","t","o","p">>,
      <<"?","r","=","/","l","o","g","i","n">> }

BadNetlocHref == <<"h","t","t","p",":","/","/","[","s","/","a">>

HrefSet ==
    {<< >>, BadNetlocHref}
      \cup {pre \o body \o ext \o tail :
               pre \in HrefPrefixes, body \in HrefBodies,
               ext \in HrefExtensions, tail \in HrefTails}

\* the urls of the pages whose markup is read
PageBases == {Home, Home \o <<"d","/","i">>}

(***************************************************************************)
(* State of one DynamicWebCrawler and of its crawl() call.                 *)
(***************************************************************************)
VARIABLES
    site,                  \* the site being crawled
    base_url, max_depth, max_pages, exhaustive, dynamic_discovery,
    visited_urls,          \* self.visited_urls
    crawled_data,          \* self.crawled_data: the page records
    url_queue,             \* self.url_queue: (url, depth) entries
    lock,                  \* self.lock: 0 when free, else the holding task
    all_discovered_links,  \* self.all_discovered_links
    dynamic_urls_found,    \* self.dynamic_urls_found
    pc,                    \* position of the thread running crawl()
    tasks,                 \* the futures of the current batch
    cur, link_i,           \* the future being processed, index into its links
    dispatched,            \* history: urls submitted to crawl_single_url
    anyFail,               \* history: some fetch failed
    emptyBatch,            \* history: the break of line 555 was taken
    skippedPop,            \* history: a popped entry was already visited
    open_sessions,         \* the browser sessions started and not quit
    u_pc,                  \* position in the link loop of crawl_with_requests
    page_url,              \* its url argument
    href,                  \* link['href'] of the anchor being read
    absolute_url,          \* urljoin(url, href)
    links,                 \* its links list
    d_pc,                  \* position in discover_dynamic_content
    initial_links,         \* the baseline set shared by the click handlers
    current_links,         \* links extracted after the last click or scroll
    new_links,             \* the links attributed to it
    pagination_links,      \* list of handle_numbered_pagination
    dynamic_links,         \* list of handle_other_interactions
    page_k,                \* pagination elements visited
    sel, el,               \* selector number, elements visited under it
    interaction_count,     \* clicks made by handle_other_interactions
    click_num,             \* repeated clicks made on the current element
    element_text,          \* its label, while it is clicked repeatedly
    pagination_data,       \* the texts of the pagination elements to click
    history,               \* the history entries of the rendered session
    clicked_href,          \* history: the href of the element just clicked
    scroll_initial,        \* initial_links of handle_infinite_scroll
    scroll_attempt,        \* scrolls made
    L0,                    \* history: the links visible before any click
    earlier,               \* history: links attributed before the last click
    i_pc,                  \* position in create_page_identifier
    id_url,                \* its url argument
    identifier,            \* its identifier
    a_pc,                  \* position of the thread running analyze_all_urls
    urls,                  \* the url list of crawled_urls.json
    output_dir,            \* the files below self.output_dir but the markers
    analysis_file,         \* comprehensive_analysis.json of each page directory
    a_tasks,               \* the futures of extract_and_analyze_single_url
    fetch_count,           \* history: calls of session.get in this run
    success_count, failed_count,
    run,                   \* number of the run of the analyzer
    present,               \* history: every url had its marker when the run began
    throwing,              \* the strategies that raise on the pages
    bad_types,             \* the component types whose extraction raises
    c_pc,                  \* position in extract_*_components
    soup,                  \* the elements of the page in document order
    component_type,        \* the component type extracted
    components             \* the list the extractor returns

\* the variables of crawl() and of its tasks, but dynamic_urls_found
crawlRest == <<site, base_url, max_depth, max_pages, exhaustive, dynamic_discovery,
               visited_urls, crawled_data, url_queue, lock, all_discovered_links,
               pc, tasks, cur, link_i,
               dispatched, anyFail, emptyBatch, skippedPop, open_sessions>>

crawlVars == <<crawlRest, dynamic_urls_found>>

\* the variables of the link loop of crawl_with_requests
linkVars == <<u_pc, page_url, href, absolute_url, links>>

\* the variables of discover_dynamic_content
discVars == <<d_pc, initial_links, current_links, new_links, pagination_links,
              dynamic_links, page_k, sel, el, interaction_count, click_num,
              element_text, pagination_data, history, clicked_href,
              scroll_initial, scroll_attempt, L0, earlier>>

\* the variables of create_page_identifier
identVars == <<i_pc, id_url, identifier>>

\* the variables of analyze_all_urls and of its tasks
anVars == <<a_pc, urls, output_dir, analysis_file, a_tasks, fetch_count,
            success_count, failed_count, run, present, throwing, bad_types>>

\* the variables of the component extractors
compVars == <<c_pc, soup, component_type, components>>

\* the variables that crawl() and its tasks do not touch
aside == <<linkVars, discVars, identVars, anVars, compVars>>

vars == <<crawlVars, aside>>

config == <<site, base_url, max_depth, max_pages, exhaustive, dynamic_discovery>>

\* self.domain = urlparse(base_url).netloc
domain == urlparse(PageUrl(base_url)).netloc

\* batch_size = min(3, len(self.url_queue))
BatchSize == 3
\* a mutant of max_workers: the pool is as wide as the batch
max_workers_wide == BatchSize

\* max_workers = 2 if self.dynamic_discovery else 3
max_workers == IF dynamic_discovery THEN 2 ELSE 3

Min(a, b) == IF a < b THEN a ELSE b

\* a set of page numbers as a list in ascending order
RECURSIVE SortedSeq(_)
SortedSeq(S) ==
    IF S = {} THEN << >>
    ELSE LET m == CHOOSE x \in S : \A y \in S : x <= y
         IN  <<m>> \o SortedSeq(S \ {m})

\* is_valid_url on every target, for a crawler started at base: the targets
\* it accepts (a table of the function, computed once)
Accepted ==
    [base \in AllPages |->
        {h \in AllPages : is_valid_url(PageUrl(h), urlparse(PageUrl(base)).netloc)}]

\* the targets of S that is_valid_url accepts
ValidSet(S) == S \cap Accepted[base_url]

\* the urls for which detect_needs_selenium is true (a table of the function)
SeleniumUrls == {p \in AllPages : detect_needs_selenium(PageUrl(p))}

None == [url |-> -1, depth |-> -1, method |-> "none"]

QueuedUrls(q) == {q[i].url : i \in 1..Len(q)}

\* no page markup is being read
LinkIdle ==
    /\ u_pc = "idle"
    /\ page_url = << >>
    /\ href = << >>
    /\ absolute_url = << >>
    /\ links = << >>

\* DynamicWebCrawler.__init__ (lines 18-30)
Fresh ==
    /\ visited_urls = {}
    /\ crawled_data = << >>
    /\ url_queue = << [url |-> base_url, depth |-> 0] >>
    /\ lock = 0
    /\ all_discovered_links = {}
    /\ dynamic_urls_found = {}
    /\ pc = "loop"
    /\ tasks = << >>
    /\ cur = 0
    /\ link_i = 0
    /\ dispatched = << >>
    /\ anyFail = FALSE
    /\ emptyBatch = FALSE
    /\ skippedPop = FALSE
    /\ open_sessions = 0

Constructed ==
    /\ site \in Sites
    /\ base_url \in Seeds(site)
    /\ max_pages \in 1..MaxPagesBound
    /\ exhaustive \in BOOLEAN
    /\ max_depth \in 0..MaxDepthBound
    /\ dynamic_discovery \in BOOLEAN
    /\ Fresh

\* the links a rendered page may show; link 0 is in its static markup
DiscLinks == 0..NumDynLinks
\* the links an endless list appends, one more at a scroll, in this order
FeedLinks == (NumDynLinks + 1)..(NumDynLinks + NumFeedLinks)
AllLinks == DiscLinks \cup FeedLinks
StaticLinks == {0}

\* a list of links as a multiset: link |-> number of occurrences
EmptyList == [l \in AllLinks |-> 0]

\* no discovery is running
DiscIdle ==
    /\ d_pc = "idle"
    /\ initial_links = {}
    /\ current_links = {}
    /\ new_links = {}
    /\ pagination_links = EmptyList
    /\ dynamic_links = EmptyList
    /\ page_k = 0
    /\ sel = 0
    /\ el = 0
    /\ interaction_count = 0
    /\ click_num = 0
    /\ element_text = << >>
    /\ pagination_data = << >>
    /\ history = << >>
    /\ clicked_href = << >>
    /\ scroll_initial = {}
    /\ scroll_attempt = 0
    /\ L0 = {}
    /\ earlier = {}

\* no identifier is being made
IdentIdle ==
    /\ i_pc = "idle"
    /\ id_url = << >>
    /\ identifier = << >>

\* no analyzer is running
AnIdle ==
    /\ a_pc = "off"
    /\ urls = << >>
    /\ output_dir = {}
    /\ analysis_file = << >>
    /\ a_tasks = << >>
    /\ fetch_count = 0
    /\ success_count = 0
    /\ failed_count = 0
    /\ run = 0
    /\ present = FALSE
    /\ throwing = {}
    /\ bad_types = {}

\* no component extractor is running
CompIdle ==
    /\ c_pc = "idle"
    /\ soup = << >>
    /\ component_type = "none"
    /\ components = << >>

Init ==
    /\ Constructed
    /\ LinkIdle
    /\ DiscIdle
    /\ IdentIdle
    /\ AnIdle
    /\ CompIdle

\* a crawler constructed for the site s.io, with dynamic discovery or not
OneCrawler(dyn) ==
    /\ Constructed
    /\ site = "portal"
    /\ base_url = 0
    /\ max_pages = 1
    /\ max_depth = 0
    /\ ~exhaustive
    /\ dynamic_discovery = dyn

(***************************************************************************)
(* crawl(): the dispatching thread.                                        *)
(***************************************************************************)
\* a mutant of MarkVisited: the url is not remembered
MarkVisitedForgets(visited, url) == visited

\* self.visited_urls.add(url)
MarkVisited(visited, url) == visited \cup {url}

\* The for loop of lines 547-552 over the first k entries of q: the entries
\* popped, the batch drawn from them, the visited set, whether a popped entry
\* was already visited.
RECURSIVE DrawFrom(_, _, _, _, _)
DrawFrom(q, k, visited, batch, skipped) ==
    IF k = 0 \/ q = << >>
    THEN [queue |-> q, visited |-> visited, batch |-> batch, skipped |-> skipped]
    ELSE IF Head(q).url \notin visited
         THEN DrawFrom(Tail(q), k - 1, MarkVisited(visited, Head(q).url),
                       Append(batch, Head(q)), skipped)
         ELSE DrawFrom(Tail(q), k - 1, visited, batch, TRUE)

NewTask(entry) ==
    [url |-> entry.url, depth |-> entry.depth, pc |-> "queued",
     page |-> None, links |-> << >>, ret |-> << >>, raised |-> FALSE]

\* One iteration of the while loop of line 538 up to the submission of the
\* batch (lines 538-563).  No task is running while it executes.
DrawBatch ==
    /\ pc = "loop"
    /\ url_queue # << >>
    /\ Len(crawled_data) < max_pages
    /\ LET batch_size == Min(BatchSize, Len(url_queue))
           d == DrawFrom(url_queue, batch_size, visited_urls, << >>, FALSE)
       IN  /\ url_queue' = d.queue
           /\ visited_urls' = d.visited
           /\ skippedPop' = (skippedPop \/ d.skipped)
           /\ dispatched' = dispatched \o [i \in 1..Len(d.batch) |-> d.batch[i].url]
           /\ IF d.batch = << >>
              THEN /\ pc' = "done"
                   /\ emptyBatch' = TRUE
                   /\ tasks' = << >>
              ELSE /\ pc' = "wait"
                   /\ emptyBatch' = emptyBatch
                   /\ tasks' = [i \in 1..Len(d.batch) |-> NewTask(d.batch[i])]
    /\ UNCHANGED <<aside, config, open_sessions, crawled_data, lock, all_discovered_links,
                   dynamic_urls_found, cur, link_i, anyFail>>

\* The while condition of line 538 is false: crawl() returns crawled_data.
Finish ==
    /\ pc = "loop"
    /\ ~(url_queue # << >> /\ Len(crawled_data) < max_pages)
    /\ pc' = "done"
    /\ UNCHANGED <<aside, config, open_sessions, visited_urls, crawled_data, url_queue, lock,
                   all_discovered_links, dynamic_urls_found, tasks, cur, link_i,
                   dispatched, anyFail, emptyBatch, skippedPop>>

\* as_completed yields a finished future and future.result() is read
\* (lines 565-566); a task that raised re-raises here.
Take(t) ==
    /\ pc = "wait"
    /\ t \in 1..Len(tasks)
    /\ tasks[t].pc = "done"
    /\ tasks' = [tasks EXCEPT ![t].pc = "taken"]
    /\ IF tasks[t].raised
       THEN pc' = "unwind" /\ cur' = cur /\ link_i' = link_i
       ELSE IF tasks[t].ret = << >>
       THEN pc' = "wait" /\ cur' = cur /\ link_i' = link_i
       ELSE pc' = "links" /\ cur' = t /\ link_i' = 1
    /\ UNCHANGED <<aside, config, open_sessions, visited_urls, crawled_data, url_queue, lock,
                   all_discovered_links, dynamic_urls_found,
                   dispatched, anyFail, emptyBatch, skippedPop>>

\* a mutant of ShouldEnqueue: the queue is not searched for the link
ShouldEnqueueNoQueueTest(link, visited, queue, n) ==
    /\ link \notin visited
    /\ n < max_pages

\* the condition of lines 569-571
ShouldEnqueue(link, visited, queue, n) ==
    /\ link \notin visited
    /\ link \notin QueuedUrls(queue)
    /\ n < max_pages

\* a mutant of future_to_url: the tuple of the future submitted last, which
\* is what the names url and depth of the loop of line 547 hold
last_submitted(t) == [url |-> tasks[Len(tasks)].url, depth |-> tasks[Len(tasks)].depth]

\* future_to_url[future] (lines 560-563, 573): the tuple the future was
\* submitted with
future_to_url(t) == [url |-> tasks[t].url, depth |-> tasks[t].depth]

\* a mutant of QueueEntry: the entry is one level deeper
QueueEntryDeeper(link, depth) == [url |-> link, depth |-> depth + 2]

\* the tuple appended by line 575 for a link of a page at the given depth
QueueEntry(link, depth) == [url |-> link, depth |-> depth + 1]

\* One iteration of the for loop of lines 568-575, on link number link_i of
\* the future being processed.
EnqueueLink ==
    /\ pc = "links"
    /\ LET link  == tasks[cur].ret[link_i]
           depth == future_to_url(cur).depth
       IN  url_queue' =
               IF /\ ShouldEnqueue(link, visited_urls, url_queue, Len(crawled_data))
                  /\ (exhaustive \/ depth + 1 <= max_depth)
               THEN Append(url_queue, QueueEntry(link, depth))
               ELSE url_queue
    /\ IF link_i < Len(tasks[cur].ret)
       THEN link_i' = link_i + 1 /\ pc' = pc
       ELSE link_i' = 0 /\ pc' = "wait"
    /\ UNCHANGED <<aside, config, open_sessions, visited_urls, crawled_data, lock, all_discovered_links,
                   dynamic_urls_found, tasks, cur,
                   dispatched, anyFail, emptyBatch, skippedPop>>

\* Every future of the batch was processed: the with block of line 559 is
\* left and the while loop goes round.
EndBatch ==
    /\ pc = "wait"
    /\ \A t \in 1..Len(tasks) : tasks[t].pc = "taken"
    /\ pc' = "loop"
    /\ tasks' = << >>
    /\ cur' = 0
    /\ UNCHANGED <<aside, config, open_sessions, visited_urls, crawled_data, url_queue, lock,
                   all_discovered_links, dynamic_urls_found, link_i,
                   dispatched, anyFail, emptyBatch, skippedPop>>

\* future.result() raised: leaving the with block waits for the tasks still
\* running (shutdown(wait=True)), then the exception leaves crawl().
Unwind ==
    /\ pc = "unwind"
    /\ \A t \in 1..Len(tasks) : tasks[t].pc \in {"done", "taken"}
    /\ pc' = "raised"
    /\ UNCHANGED <<aside, config, open_sessions, visited_urls, crawled_data, url_queue, lock,
                   all_discovered_links, dynamic_urls_found, tasks, cur, link_i,
                   dispatched, anyFail, emptyBatch, skippedPop>>

(***************************************************************************)
(* crawl_single_url(): a task of the thread pool.                          *)
(***************************************************************************)
Running(t) == tasks[t].pc \in {"fetch", "selenium", "got", "locked"}

\* the links crawl_with_requests returns for page p
RequestsLinks(p) == SortedSeq(ValidSet(Hrefs(site, p)))

\* the links discover_dynamic_content returns for page p: those that appear
\* after interaction and are not in the initial link set
DynLinks(p) ==
    IF dynamic_discovery
    THEN ValidSet(DynHrefs(site, p)) \ ValidSet(Hrefs(site, p))
    ELSE {}

\* all_links of crawl_with_selenium for page p
SeleniumLinks(p) == SortedSeq(ValidSet(Hrefs(site, p)) \cup DynLinks(p))

\* the condition of line 508
NeedsSelenium(got_page, url) ==
    \/ ~got_page
    \/ (dynamic_discovery /\ url \in SeleniumUrls)

\* requests cannot fetch a URL without an http(s) scheme
RequestsOutcomes(p) == IF p = MailLink THEN {"fail"} ELSE {"ok", "fail"}

\* The pool starts the task (at most max_workers run, in submission order)
\* and the task makes the unlocked test of lines 501-502.
Precheck(t) ==
    /\ pc \in {"wait", "links", "unwind"}
    /\ t \in 1..Len(tasks)
    /\ tasks[t].pc = "queued"
    /\ \A s \in 1..(t - 1) : tasks[s].pc # "queued"
    /\ Cardinality({s \in 1..Len(tasks) : Running(s)}) < max_workers
    /\ tasks' = IF Len(crawled_data) >= max_pages
                THEN [tasks EXCEPT ![t].pc = "done"]
                ELSE [tasks EXCEPT ![t].pc = "fetch"]
    /\ UNCHANGED <<aside, config, open_sessions, visited_urls, crawled_data, url_queue, lock,
                   all_discovered_links, dynamic_urls_found, pc, cur, link_i,
                   dispatched, anyFail, emptyBatch, skippedPop>>

\* page_data, links = self.crawl_with_requests(url, depth) (line 505) and
\* the choice of line 508; a failed plain fetch returns (None, [])
FetchRequests(t) ==
    /\ t \in 1..Len(tasks)
    /\ tasks[t].pc = "fetch"
    /\ \E rq \in RequestsOutcomes(tasks[t].url) :
          LET u == tasks[t].url
              next == IF NeedsSelenium(rq = "ok", u) THEN "selenium" ELSE "got"
          IN  /\ anyFail' = (anyFail \/ rq = "fail")
              /\ tasks' =
                   IF rq = "ok"
                   THEN [tasks EXCEPT ![t].pc = next,
                           ![t].page = [url |-> u, depth |-> tasks[t].depth,
                                        method |-> "requests"],
                           ![t].links = RequestsLinks(u)]
                   ELSE [tasks EXCEPT ![t].pc = next]
    /\ UNCHANGED <<aside, config, open_sessions, visited_urls, crawled_data, url_queue, lock,
                   all_discovered_links, dynamic_urls_found, pc, cur, link_i,
                   dispatched, emptyBatch, skippedPop>>

\* create_selenium_driver (lines 41-69) for the outcome out of the rendered
\* fetch: the sessions open after it.  webdriver.Chrome may fail
\* ("nodriver": no session); it may succeed and set_page_load_timeout or
\* implicitly_wait raise ("unconfigured"): the handler of line 67 returns
\* None and nothing quits the session that was started.
Created(out, open) == IF out = "nodriver" THEN open ELSE open + 1

\* the finally clause of line 460: driver.quit() ends the session of the
\* driver that create_selenium_driver returned, also when it raises
Quit(out, open) == IF out \in {"nodriver", "unconfigured"} THEN open ELSE open - 1

\* the outcomes of the rendered fetch; a session that nothing quits is
\* modelled MaxLeaks times
SeleniumOutcomes(open) ==
    {"ok", "nodriver", "error", "ok_quit_raises", "error_quit_raises"}
    \cup (IF open < MaxLeaks THEN {"unconfigured"} ELSE {})

\* page_data, links = self.crawl_with_selenium(url, depth) (line 509): the
\* driver may not start ("nodriver", "unconfigured"), the body may succeed
\* or raise, and driver.quit() in the finally clause may raise, which
\* replaces the return by an exception.  The value returned, (None, []) for
\* a failure, replaces the result of the plain fetch.
FetchSelenium(t) ==
    /\ t \in 1..Len(tasks)
    /\ tasks[t].pc = "selenium"
    /\ \E out \in SeleniumOutcomes(open_sessions) :
          LET u == tasks[t].url
              bodyOk == out \in {"ok", "ok_quit_raises"}
          IN  /\ anyFail' = (anyFail \/ out # "ok")
              /\ open_sessions' = Quit(out, Created(out, open_sessions))
              /\ dynamic_urls_found' =
                   IF bodyOk THEN dynamic_urls_found \cup DynLinks(u)
                   ELSE dynamic_urls_found
              /\ tasks' =
                   IF out = "ok"
                   THEN [tasks EXCEPT ![t].pc = "got",
                           ![t].page = [url |-> u, depth |-> tasks[t].depth,
                                        method |-> IF DynLinks(u) # {}
                                                   THEN "selenium_dynamic"
                                                   ELSE "selenium"],
                           ![t].links = SeleniumLinks(u)]
                   ELSE IF out \in {"nodriver", "unconfigured", "error"}
                   THEN [tasks EXCEPT ![t].pc = "done",
                           ![t].page = None, ![t].links = << >>]
                   ELSE [tasks EXCEPT ![t].pc = "done", ![t].raised = TRUE,
                           ![t].page = None, ![t].links = << >>]
    /\ UNCHANGED <<aside, config, visited_urls, crawled_data, url_queue, lock,
                   all_discovered_links, pc, cur, link_i,
                   dispatched, emptyBatch, skippedPop>>

\* a mutant of AppendRecord: the test of line 513 is left out
AppendRecordUnchecked(data, page) == Append(data, page)

\* lines 513-514
AppendRecord(data, page) ==
    IF Len(data) < max_pages THEN Append(data, page) ELSE data

\* The with self.lock block of lines 512-521: the lock is taken and the
\* record and the links are stored.
Record(t) ==
    /\ t \in 1..Len(tasks)
    /\ tasks[t].pc = "got"
    /\ lock = 0
    /\ lock' = t
    /\ crawled_data' = AppendRecord(crawled_data, tasks[t].page)
    /\ all_discovered_links' = all_discovered_links \cup Range(tasks[t].links)
    /\ tasks' = [tasks EXCEPT ![t].pc = "locked"]
    /\ UNCHANGED <<aside, config, open_sessions, visited_urls, url_queue, dynamic_urls_found,
                   pc, cur, link_i, dispatched, anyFail, emptyBatch, skippedPop>>

\* a mutant of ReturnedLinks: the exhaustive flag is ignored
ReturnedLinksDepthOnly(page_links, depth) ==
    IF depth < max_depth THEN page_links ELSE << >>

\* the value returned by line 523
ReturnedLinks(page_links, depth) ==
    IF exhaustive \/ depth < max_depth THEN page_links ELSE << >>

\* The lock is released and the task returns (line 523).
Release(t) ==
    /\ t \in 1..Len(tasks)
    /\ tasks[t].pc = "locked"
    /\ lock = t
    /\ lock' = 0
    /\ tasks' = [tasks EXCEPT ![t].pc = "done",
                   ![t].ret = ReturnedLinks(tasks[t].links, tasks[t].depth)]
    /\ UNCHANGED <<aside, config, open_sessions, visited_urls, crawled_data, url_queue,
                   all_discovered_links, dynamic_urls_found,
                   pc, cur, link_i, dispatched, anyFail, emptyBatch, skippedPop>>

Next ==
    \/ DrawBatch
    \/ Finish
    \/ \E t \in 1..BatchSize : Take(t)
    \/ EnqueueLink
    \/ EndBatch
    \/ Unwind
    \/ \E t \in 1..BatchSize : Precheck(t)
    \/ \E t \in 1..BatchSize : FetchRequests(t)
    \/ \E t \in 1..BatchSize : FetchSelenium(t)
    \/ \E t \in 1..BatchSize : Record(t)
    \/ \E t \in 1..BatchSize : Release(t)

Spec == Init /\ [][Next]_vars

\* Every thread that can take a step eventually takes one: the pool's
\* threads and the dispatching thread are scheduled by the operating system.
FairSpec == Spec /\ WF_vars(Next)

\* crawl() on the site "fan", with a page ceiling the site does not reach
\* and a depth limit of 0 to 3 or none
FanPages == {0, 1, 2, 3, FanD, FanE, FanU, BlogPage}
FanDepths == 0..(MaxDepthBound + 2)
InitFan ==
    /\ site = "fan"
    /\ base_url = 0
    /\ max_pages = Cardinality(FanPages) + 1
    /\ exhaustive \in BOOLEAN
    /\ max_depth \in FanDepths
    /\ dynamic_discovery \in BOOLEAN
    /\ Fresh
    /\ LinkIdle
    /\ DiscIdle
    /\ IdentIdle
    /\ AnIdle
    /\ CompIdle

SpecFan == InitFan /\ [][Next]_vars

(***************************************************************************)
(* FastWebCrawler (fast_crawler.py) on the site "fan".  Its crawl() draws  *)
(* and joins the batches as DynamicWebCrawler.crawl() does (lines 156-178  *)
(* are lines 538-566 of the other file, with a pool of 3), so DrawBatch,   *)
(* Finish, Precheck, Take, EndBatch and Unwind serve for both; the task    *)
(* body and the loop over the links returned differ.                       *)
(***************************************************************************)
\* the extensions of line 130
fast_skip_extensions ==
    { <<".","p","d","f">>, <<".","j","p","g">>, <<".","p","n","g">>,
      <<".","g","i","f">>, <<".","z","i","p">> }

\* FastWebCrawler.is_valid_url (lines 125-132)
fast_is_valid_url(url, dom) ==
    LET parsed == urlparse(url)
    IN  IF parsed.raises THEN FALSE
        ELSE /\ (parsed.netloc = dom \/ parsed.netloc = << >>)
             /\ ~\E ext \in fast_skip_extensions : Contains(Lower(url), ext)

\* the targets FastWebCrawler.is_valid_url accepts, for a crawl started at
\* base (a table of the function)
FastAccepted ==
    [base \in AllPages |->
        {h \in AllPages : fast_is_valid_url(PageUrl(h), urlparse(PageUrl(base)).netloc)}]

\* links of extract_essential_data for page p (lines 78-84)
FastLinks(p) == SortedSeq(Hrefs(site, p) \cap FastAccepted[base_url])

\* len(self.url_queue) < 100 (line 182)
QueueLimit == 100

InitFast ==
    /\ site = "fan"
    /\ base_url = 0
    /\ max_pages = Cardinality(FanPages) + 1
    /\ exhaustive = FALSE
    /\ max_depth \in FanDepths
    /\ dynamic_discovery = FALSE
    /\ Fresh
    /\ LinkIdle
    /\ DiscIdle
    /\ IdentIdle
    /\ AnIdle
    /\ CompIdle

\* create_driver (line 139) and extract_essential_data (line 141): the
\* driver cannot be started and the task raises before its try block, or the
\* page is fetched, or the fetch fails and (None, []) is returned (line 105)
FastFetch(t) ==
    /\ t \in 1..Len(tasks)
    /\ tasks[t].pc = "fetch"
    /\ \E out \in {"ok", "fail", "nodriver"} :
          LET u == tasks[t].url
          IN  /\ anyFail' = (anyFail \/ out # "ok")
              /\ open_sessions' = Created(out, open_sessions)
              /\ tasks' =
                   IF out = "ok"
                   THEN [tasks EXCEPT ![t].pc = "got",
                           ![t].page = [url |-> u, depth |-> tasks[t].depth,
                                        method |-> "selenium"],
                           ![t].links = FastLinks(u)]
                   ELSE IF out = "fail"
                   THEN [tasks EXCEPT ![t].pc = "quit"]
                   ELSE [tasks EXCEPT ![t].pc = "done", ![t].raised = TRUE]
    /\ UNCHANGED <<aside, config, visited_urls, crawled_data, url_queue, lock,
                   all_discovered_links, dynamic_urls_found, pc, cur, link_i,
                   dispatched, emptyBatch, skippedPop>>

\* Lines 143-147: the record is appended under the lock, which is released
\* at the end of the with block, and the value to return is computed.
FastRecord(t) ==
    /\ t \in 1..Len(tasks)
    /\ tasks[t].pc = "got"
    /\ lock = 0
    /\ crawled_data' = AppendRecord(crawled_data, tasks[t].page)
    /\ tasks' = [tasks EXCEPT ![t].pc = "quit",
                   ![t].ret = IF tasks[t].depth < max_depth
                              THEN tasks[t].links ELSE << >>]
    /\ UNCHANGED <<aside, config, open_sessions, visited_urls, url_queue, lock,
                   all_discovered_links, dynamic_urls_found,
                   pc, cur, link_i, dispatched, anyFail, emptyBatch, skippedPop>>

\* The finally clause of lines 148-149: driver.quit() returns and the task
\* returns its value ([] without a page, line 150), or it raises.
FastQuit(t) ==
    /\ t \in 1..Len(tasks)
    /\ tasks[t].pc = "quit"
    /\ open_sessions' = open_sessions - 1
    /\ \/ tasks' = [tasks EXCEPT ![t].pc = "done"]
       \/ tasks' = [tasks EXCEPT ![t].pc = "done", ![t].raised = TRUE,
                      ![t].ret = << >>]
    /\ UNCHANGED <<aside, config, visited_urls, crawled_data, url_queue, lock,
                   all_discovered_links, dynamic_urls_found,
                   pc, cur, link_i, dispatched, anyFail, emptyBatch, skippedPop>>

\* One iteration of the for loop of lines 181-183, on link number link_i of
\* the future being processed: the depth is taken from the first tuple of
\* current_batch.
FastEnqueueLink ==
    /\ pc = "links"
    /\ LET link == tasks[cur].ret[link_i]
       IN  url_queue' =
               IF link \notin visited_urls /\ Len(url_queue) < QueueLimit
               THEN Append(url_queue, [url |-> link, depth |-> tasks[1].depth + 1])
               ELSE url_queue
    /\ IF link_i < Len(tasks[cur].ret)
       THEN link_i' = link_i + 1 /\ pc' = pc
       ELSE link_i' = 0 /\ pc' = "wait"
    /\ UNCHANGED <<aside, config, open_sessions, visited_urls, crawled_data, lock,
                   all_discovered_links, dynamic_urls_found, tasks, cur,
                   dispatched, anyFail, emptyBatch, skippedPop>>

NextFast ==
    \/ DrawBatch
    \/ Finish
    \/ \E t \in 1..BatchSize : Take(t)
    \/ FastEnqueueLink
    \/ EndBatch
    \/ Unwind
    \/ \E t \in 1..BatchSize : Precheck(t)
    \/ \E t \in 1..BatchSize : FastFetch(t)
    \/ \E t \in 1..BatchSize : FastRecord(t)
    \/ \E t \in 1..BatchSize : FastQuit(t)

SpecFast == InitFast /\ [][NextFast]_vars

(***************************************************************************)
(* The link loop of crawl_with_requests (lines 393-399) on the markup of   *)
(* one page, in a crawler constructed for the site s.io.                   *)
(***************************************************************************)
InitUrl ==
    /\ OneCrawler(FALSE)
    /\ LinkIdle
    /\ DiscIdle
    /\ IdentIdle
    /\ AnIdle
    /\ CompIdle

\* the variables the link loop does not touch
besideLinks == <<crawlVars, discVars, identVars, anVars, compVars>>

\* The response of the page at url is parsed and an anchor is met
\* (lines 386-395).
ReadAnchor ==
    /\ u_pc = "idle"
    /\ \E pg \in PageBases, h \in HrefSet :
          /\ page_url' = pg
          /\ href' = h
    /\ u_pc' = "href"
    /\ absolute_url' = << >>
    /\ links' = << >>
    /\ UNCHANGED besideLinks

\* Lines 396-397: an empty href is passed over; urljoin makes the href
\* absolute, or raises, which ends the loop in the except clause of line 414.
Join ==
    /\ u_pc = "href"
    /\ IF href = << >>
       THEN u_pc' = "judged" /\ absolute_url' = absolute_url
       ELSE IF urljoinRaises(page_url, href)
       THEN u_pc' = "failed" /\ absolute_url' = absolute_url
       ELSE u_pc' = "joined" /\ absolute_url' = urljoin(page_url, href)
    /\ UNCHANGED <<besideLinks, page_url, href, links>>

\* Lines 398-399
Validate ==
    /\ u_pc = "joined"
    /\ links' = IF is_valid_url(absolute_url, domain)
                THEN Append(links, absolute_url)
                ELSE links
    /\ u_pc' = "judged"
    /\ UNCHANGED <<besideLinks, page_url, href, absolute_url>>

\* crawl_with_requests returns: page_data and links (line 412), or None and
\* the empty list (line 416).
ReturnLinks ==
    /\ u_pc \in {"judged", "failed"}
    /\ u_pc' = "idle"
    /\ page_url' = << >>
    /\ href' = << >>
    /\ absolute_url' = << >>
    /\ links' = << >>
    /\ UNCHANGED besideLinks

NextUrl ==
    \/ ReadAnchor
    \/ Join
    \/ Validate
    \/ ReturnLinks

SpecUrl == InitUrl /\ [][NextUrl]_vars

(***************************************************************************)
(* discover_dynamic_content (lines 86-105) on one rendered page: numbered  *)
(* pagination, the other interactions, infinite scroll.  A link is a page  *)
(* number that extract_links_from_driver returned.  The lists of links are *)
(* kept as multisets: the code only extends them and turns them into sets. *)
(***************************************************************************)
\* paginationLinks.slice(0, 10)
PaginationLimit == 10
\* max_interactions = 10
max_interactions == 10
\* the number of entries of interactive_selectors
NumSelectors == 11
\* elements.slice(0, 5)
ElementLimit == 5
\* for click_num in range(3)
RepeatClicks == 3
\* for scroll_attempt in range(5)
ScrollAttempts == 5

\* String.prototype.trim and str.strip() on the blanks of a text
RECURSIVE Trim(_)
Trim(text) ==
    IF text = << >> THEN text
    ELSE IF Head(text) = " " THEN Trim(Tail(text))
    ELSE IF text[Len(text)] = " " THEN Trim(SubSeq(text, 1, Len(text) - 1))
    ELSE text

\* parseInt on a text of decimal digits
RECURSIVE parseInt(_)
parseInt(text) ==
    IF text = << >> THEN 0
    ELSE 10 * parseInt(SubSeq(text, 1, Len(text) - 1))
         + (CHOOSE d \in 0..9 : DigitChars[d + 1] = text[Len(text)])

\* the test /^[2-9]$|^[1-9][0-9]$/ of line 124
IsPageNumber(text) ==
    \/ /\ Len(text) = 1
       /\ text[1] \in Range(SubSeq(DigitChars, 3, 10))
    \/ /\ Len(text) = 2
       /\ text[1] \in Range(SubSeq(DigitChars, 2, 10))
       /\ text[2] \in Range(DigitChars)

\* Lines 119-141: the element is pushed.  An element of the page is its
\* textContent, the evidence of isPagination it carries ("href", "onclick",
\* "data-page", "parent", "grandparent" or "none") and its visibility.
Qualifies(element) ==
    /\ IsPageNumber(Trim(element.text))
    /\ element.evidence # "none"
    /\ element.visible

\* Array.prototype.sort with the comparator of lines 152-154 (a stable
\* sort): x is put behind the texts whose number is not greater
InsertByNumber(sorted, x) ==
    LET k == Cardinality({i \in 1..Len(sorted) : parseInt(sorted[i]) <= parseInt(x)})
    IN  SubSeq(sorted, 1, k) \o <<x>> \o SubSeq(sorted, k + 1, Len(sorted))

RECURSIVE SortByNumber(_)
SortByNumber(list) ==
    IF list = << >> THEN << >>
    ELSE InsertByNumber(SortByNumber(SubSeq(list, 1, Len(list) - 1)), list[Len(list)])

\* a mutant of slice_first: the list is not cut
slice_whole(list, n) == list

\* Array.prototype.slice(0, n)
slice_first(list, n) == SubSeq(list, 1, Min(n, Len(list)))

\* the texts of the elements of a list
Texts(elements) == [i \in 1..Len(elements) |-> Trim(elements[i].text)]

\* pagination_script (lines 115-157): the texts of pagination_data
pagination_script(page) ==
    slice_first(SortByNumber(Texts(SelectSeq(page, Qualifies))), PaginationLimit)

\* the decimal text of a number
RECURSIVE Txt(_)
Txt(n) ==
    IF n < 10 THEN <<DigitChars[n + 1]>>
    ELSE Txt(n \div 10) \o <<DigitChars[(n % 10) + 1]>>

\* a page with the links n, n-1, .. 1 in this order
Numbered(n) ==
    [i \in 1..n |-> [text |-> Txt(n + 1 - i), evidence |-> "href", visible |-> TRUE]]

\* a page whose elements qualify in part
OddPage ==
    << [text |-> <<"1">>,          evidence |-> "href",        visible |-> TRUE],
       [text |-> <<"1","0","0">>,  evidence |-> "href",        visible |-> TRUE],
       [text |-> <<"0","7">>,      evidence |-> "href",        visible |-> TRUE],
       [text |-> <<"7">>,          evidence |-> "none",        visible |-> TRUE],
       [text |-> <<"5">>,          evidence |-> "parent",      visible |-> FALSE],
       [text |-> <<"9","9">>,      evidence |-> "data-page",   visible |-> TRUE],
       [text |-> <<" ","1","0">>,  evidence |-> "onclick",     visible |-> TRUE],
       [text |-> <<"3">>,          evidence |-> "grandparent", visible |-> TRUE],
       [text |-> <<"x","2">>,      evidence |-> "href",        visible |-> TRUE],
       [text |-> <<"3"," ">>,      evidence |-> "parent",      visible |-> TRUE] >>

\* the pages discovery is run on
DiscPages == {Numbered(0), Numbered(3), Numbered(MaxNumbered), OddPage}

\* the values pagination_data takes on them (a table of pagination_script)
PaginationData == {pagination_script(page) : page \in DiscPages}

\* The history of the rendered session: the page states of its entries up
\* to the one shown.  A new driver shows its start page; driver.get(url)
\* (line 425) adds the entry of the page.
LoadedHistory == <<"start", "original">>

\* the page state the session shows
Shown(h) == h[Len(h)]

\* the click of lines 186-190: it opens another page, which adds a history
\* entry, or it rewrites the page shown in place
Click(h, effect) ==
    IF effect = "navigates" THEN Append(h, "other")
    ELSE [h EXCEPT ![Len(h)] = "altered"]

\* driver.back() (line 209): the session shows the entry before
back(h) == IF Len(h) > 1 THEN SubSeq(h, 1, Len(h) - 1) ELSE h

\* the labels of the controls handle_other_interactions finds
LongLabel == Repeat("x", 47) \o <<"m","o","r","e">>
ButtonLabels ==
    { <<"N","e","x","t">>,
      <<" ","L","o","a","d"," ","M","o","r","e"," ">>,
      <<"P","r","e","v","i","o","u","s">>,
      LongLabel }

\* element.get_attribute('href') (line 286) when the element has no href:
\* None, or an empty text; line 287 takes both as false
NoHref == << >>

\* the href values of the controls: none (a button), a fragment, a script
\* target, a page of the site, a page of another site, and a page of
\* another site whose query names the site
FragmentHref == <<"#","m","o","r","e">>
ScriptHref == <<"j","a","v","a","s","c","r","i","p","t",":",";">>
OwnHref == Home \o <<"p">>
OtherHref == <<"h","t","t","p",":","/","/","o",".","i","o","/">>
OtherHrefNamingSite == OtherHref \o <<"?","r","=","s",".","i","o">>
ElementHrefs ==
    {NoHref, FragmentHref, ScriptHref, OwnHref, OtherHref, OtherHrefNamingSite}

\* the test of line 287: the element is passed over
SkipExternal(h, dom) ==
    /\ h # NoHref
    /\ ~StartsWith(h, <<"#">>)
    /\ ~StartsWith(h, <<"j","a","v","a","s","c","r","i","p","t",":">>)
    /\ ~Contains(h, dom)

\* the hrefs line 287 passes over, for a crawler started at base (a table
\* of the test)
ExternalHrefs ==
    [base \in AllPages |->
        {h \in ElementHrefs : SkipExternal(h, urlparse(PageUrl(base)).netloc)}]

\* the controls the query of lines 257-276 returns: the text and the href
\* of each
Control(label, h) == [text |-> label, href |-> h]
Controls ==
    { Control(<<"N","e","x","t">>, NoHref),
      Control(<<" ","L","o","a","d"," ","M","o","r","e"," ">>, ScriptHref),
      Control(<<"P","r","e","v","i","o","u","s">>, FragmentHref),
      Control(LongLabel, OwnHref),
      Control(<<"N","e","x","t">>, OtherHref),
      Control(<<" ","L","o","a","d"," ","M","o","r","e"," ">>, OtherHrefNamingSite) }

\* element_text = element.text.strip()[:50] (line 283)
ElementText(label) == SubSeq(Trim(label), 1, Min(50, Len(Trim(label))))

\* the keywords of line 315
repeat_keywords == << <<"n","e","x","t">>, <<"m","o","r","e">>, <<"l","o","a","d">> >>

\* any(keyword in element_text.lower() for keyword in [...]) (line 315)
LooksLikePagination(text) ==
    \E k \in 1..Len(repeat_keywords) : Contains(Lower(text), repeat_keywords[k])

\* the labels for which line 315 is true (a table of the test)
RepeatLabels == {label \in ButtonLabels : LooksLikePagination(ElementText(label))}

\* a mutant of RepeatBudgetSpent: the repeated clicks are not counted
RepeatBudgetIgnored(count) == FALSE

\* if interaction_count >= max_interactions: break (lines 317-318)
RepeatBudgetSpent(count) == count >= max_interactions

\* a mutant of MoreContent: the loop goes on whatever the click showed
MoreContentAlways(found) == TRUE

\* if new_links: ... else: break (lines 329-334)
MoreContent(found) == found # {}

InitDisc ==
    /\ OneCrawler(TRUE)
    /\ LinkIdle
    /\ DiscIdle
    /\ IdentIdle
    /\ AnIdle
    /\ CompIdle

\* the variables discovery does not touch
besideDisc == <<crawlRest, linkVars, identVars, anVars, compVars>>

\* list.extend(list(S))
Extend(list, S) == [l \in AllLinks |-> list[l] + (IF l \in S THEN 1 ELSE 0)]

\* list(set(list))
Distinct(list) == [l \in AllLinks |-> Min(list[l], 1)]

\* a mutant of UpdateBaseline: the baseline is left as it was
UpdateBaselineSkipped(baseline, found) == baseline

\* initial_links.update(new_links)
UpdateBaseline(baseline, found) == baseline \cup found

\* Line 91: the baseline is the set of links visible before any interaction;
\* lines 115-159: pagination_data is computed on the page.
StartDiscovery ==
    /\ d_pc = "idle"
    /\ \E V \in SUBSET StaticLinks :
          /\ initial_links' = V
          /\ L0' = V
    /\ pagination_data' \in PaginationData
    /\ history' = LoadedHistory
    /\ d_pc' = "pagination"
    /\ UNCHANGED <<current_links, new_links, pagination_links, dynamic_links,
                   page_k, sel, el, interaction_count, click_num, element_text,
                   scroll_initial, scroll_attempt, earlier>>
    /\ UNCHANGED <<besideDisc, dynamic_urls_found>>
    /\ clicked_href' = NoHref

\* Lines 195-203 after a pagination click that showed the links V
PaginationAttribute(V) ==
    /\ current_links' = V
    /\ new_links' = V \ initial_links
    /\ earlier' = earlier \cup new_links
    /\ initial_links' = UpdateBaseline(initial_links, V \ initial_links)
    /\ pagination_links' = Extend(pagination_links, V \ initial_links)
    /\ dynamic_urls_found' = dynamic_urls_found \cup (V \ initial_links)

\* One iteration of the loop of line 164 over pagination_data: no element
\* with the text is found on the page shown (line 181; the start page of the
\* driver has none) or the click raises (line 212), or the element is
\* clicked, the links are extracted and the driver goes back (line 209).
PaginationClick ==
    /\ d_pc = "pagination"
    /\ page_k < Len(pagination_data)
    /\ page_k' = page_k + 1
    /\ \/ UNCHANGED <<current_links, new_links, earlier, initial_links,
                      pagination_links, dynamic_urls_found, history>>
       \/ /\ Shown(history) # "start"
          /\ \E V \in SUBSET DiscLinks : PaginationAttribute(V)
          /\ \E effect \in {"navigates", "in place"} :
                history' = back(Click(history, effect))
    /\ UNCHANGED <<d_pc, dynamic_links, sel, el, interaction_count, click_num,
                   element_text, pagination_data, scroll_initial,
                   scroll_attempt, L0>>
    /\ UNCHANGED besideDisc
    /\ clicked_href' = NoHref

\* The loop of line 164 is over: handle_numbered_pagination returns (line
\* 221), its locals are dead, and handle_other_interactions starts with the
\* same initial_links set (lines 99, 225-227).  The later phases never go
\* back; their steps are modelled for whatever page the session shows, and
\* the history is not followed further.
PaginationDone ==
    /\ d_pc = "pagination"
    /\ page_k = Len(pagination_data)
    /\ d_pc' = "other"
    /\ page_k' = 0
    /\ pagination_data' = << >>
    /\ history' = << >>
    /\ sel' = 1
    /\ el' = 0
    /\ interaction_count' = 0
    /\ UNCHANGED <<initial_links, current_links, new_links, pagination_links,
                   dynamic_links, click_num, element_text, scroll_initial,
                   scroll_attempt, L0, earlier>>
    /\ UNCHANGED <<besideDisc, dynamic_urls_found>>
    /\ clicked_href' = NoHref

\* Lines 305-310 and 326-330 after a click that showed the links V
OtherAttribute(V) ==
    /\ current_links' = V
    /\ new_links' = V \ initial_links
    /\ earlier' = earlier \cup new_links
    /\ initial_links' = UpdateBaseline(initial_links, V \ initial_links)
    /\ dynamic_links' = Extend(dynamic_links, V \ initial_links)

\* One iteration of the loop of line 278 over the elements of a selector: the
\* element is passed over for its href (line 288), or it cannot be clicked
\* (line 340), or it is clicked; with new links and a label that holds next,
\* more or load the loop of line 316 is entered.
VisitElement ==
    /\ d_pc = "other"
    /\ sel <= NumSelectors
    /\ interaction_count < max_interactions
    /\ el < Min(ElementLimit, MaxButtons)
    /\ el' = el + 1
    /\ \/ /\ \E c \in Controls : c.href \in ExternalHrefs[base_url]
          /\ clicked_href' = NoHref
          /\ UNCHANGED <<d_pc, interaction_count, click_num, element_text,
                         current_links, new_links, earlier, initial_links,
                         dynamic_links>>
       \/ /\ clicked_href' = NoHref
          /\ UNCHANGED <<d_pc, interaction_count, click_num, element_text,
                         current_links, new_links, earlier, initial_links,
                         dynamic_links>>
       \/ \E V \in SUBSET DiscLinks, c \in Controls :
             /\ c.href \notin ExternalHrefs[base_url]
             /\ clicked_href' = c.href
             /\ interaction_count' = interaction_count + 1
             /\ OtherAttribute(V)
             /\ click_num' = 0
             /\ IF V \ initial_links # {} /\ c.text \in RepeatLabels
                THEN d_pc' = "reclick" /\ element_text' = ElementText(c.text)
                ELSE d_pc' = d_pc /\ element_text' = << >>
    /\ UNCHANGED <<pagination_links, page_k, sel, scroll_initial, scroll_attempt,
                   L0, pagination_data, history>>
    /\ UNCHANGED <<besideDisc, dynamic_urls_found>>

\* One iteration of the loop of line 316: the click raises (line 336), or it
\* shows the links V; the loop goes on only while new links appear.
Reclick ==
    /\ d_pc = "reclick"
    /\ click_num < RepeatClicks
    /\ ~RepeatBudgetSpent(interaction_count)
    /\ \/ /\ d_pc' = "other"
          /\ click_num' = 0
          /\ element_text' = << >>
          /\ UNCHANGED <<interaction_count, current_links, new_links, earlier,
                         initial_links, dynamic_links>>
       \/ \E V \in SUBSET DiscLinks :
             /\ interaction_count' = interaction_count + 1
             /\ OtherAttribute(V)
             /\ IF MoreContent(V \ initial_links)
                THEN /\ d_pc' = d_pc
                     /\ click_num' = click_num + 1
                     /\ element_text' = element_text
                ELSE /\ d_pc' = "other"
                     /\ click_num' = 0
                     /\ element_text' = << >>
    /\ UNCHANGED <<pagination_links, page_k, sel, el, scroll_initial,
                   scroll_attempt, L0, pagination_data, history>>
    /\ UNCHANGED <<besideDisc, dynamic_urls_found>>
    /\ clicked_href' = NoHref

\* The loop of line 316 ends: three repeated clicks were made, or the budget
\* of interactions is spent (line 317).
ReclickEnd ==
    /\ d_pc = "reclick"
    /\ (click_num = RepeatClicks \/ RepeatBudgetSpent(interaction_count))
    /\ d_pc' = "other"
    /\ click_num' = 0
    /\ element_text' = << >>
    /\ UNCHANGED <<initial_links, current_links, new_links, pagination_links,
                   dynamic_links, page_k, sel, el, interaction_count,
                   scroll_initial, scroll_attempt, L0, earlier,
                   pagination_data, history>>
    /\ UNCHANGED <<besideDisc, dynamic_urls_found>>
    /\ clicked_href' = NoHref

\* The elements of the selector are exhausted (or its query raised, line
\* 343): the loop of line 251 takes the next selector.
NextSelector ==
    /\ d_pc = "other"
    /\ sel <= NumSelectors
    /\ interaction_count < max_interactions
    /\ sel' = sel + 1
    /\ el' = 0
    /\ UNCHANGED <<d_pc, initial_links, current_links, new_links,
                   pagination_links, dynamic_links, page_k, interaction_count,
                   click_num, element_text, scroll_initial, scroll_attempt, L0,
                   earlier, pagination_data, history>>
    /\ UNCHANGED <<besideDisc, dynamic_urls_found>>
    /\ clicked_href' = NoHref

\* Line 361: handle_infinite_scroll takes its own baseline, the links V
\* visible now.  The click loops are over: their locals are dead and the
\* history of the clicks is closed.
EnterScroll(V) ==
    /\ d_pc' = "scroll"
    /\ scroll_initial' = V
    /\ scroll_attempt' = 0
    /\ current_links' = {}
    /\ new_links' = {}
    /\ earlier' = {}
    /\ sel' = 0
    /\ el' = 0
    /\ interaction_count' = 0
    /\ UNCHANGED <<initial_links, pagination_links, dynamic_links, page_k,
                   click_num, element_text, L0, pagination_data, history>>
    /\ UNCHANGED <<besideDisc, dynamic_urls_found>>
    /\ clicked_href' = NoHref

\* Every selector was tried (line 251 ends): line 349.
SelectorsDone ==
    /\ d_pc = "other"
    /\ sel > NumSelectors
    /\ interaction_count < max_interactions
    /\ \E V \in SUBSET DiscLinks : EnterScroll(V)

\* The budget of interactions is spent (lines 252-253, 279-280): line 349.
BudgetSpent ==
    /\ d_pc = "other"
    /\ interaction_count >= max_interactions
    /\ \E V \in SUBSET DiscLinks : EnterScroll(V)

\* the next link of the endless list, when some are left
NextFed(shown) ==
    {f \in FeedLinks : f \notin shown /\ \A g \in FeedLinks : g < f => g \in shown}

\* the links extract_links_from_driver may return after a scroll (line 369):
\* any links of the page, or the links seen so far and one more of the list
ScrollViews(shown) ==
    (SUBSET DiscLinks) \cup {shown \cup {f} : f \in NextFed(shown)}

\* a mutant of ScrollsLeft: the loop is not bounded
ScrollsUnbounded(attempt) == TRUE

\* for scroll_attempt in range(5) (line 363): another iteration is due
ScrollsLeft(attempt) == attempt < ScrollAttempts

\* One iteration of the loop of line 363: the scroll raises (line 379), or
\* the links V are visible after it; the loop goes on only while new links
\* appear.
ScrollStep ==
    /\ d_pc = "scroll"
    /\ ScrollsLeft(scroll_attempt)
    /\ \/ /\ d_pc' = "scrolled"
          /\ UNCHANGED <<current_links, new_links, dynamic_links,
                         scroll_initial, scroll_attempt>>
       \/ \E V \in ScrollViews(scroll_initial) :
             /\ current_links' = V
             /\ new_links' = V \ scroll_initial
             /\ dynamic_links' = Extend(dynamic_links, V \ scroll_initial)
             /\ scroll_initial' = scroll_initial \cup (V \ scroll_initial)
             /\ IF V \ scroll_initial # {}
                THEN d_pc' = d_pc /\ scroll_attempt' = scroll_attempt + 1
                ELSE d_pc' = "scrolled" /\ scroll_attempt' = scroll_attempt
    /\ UNCHANGED <<initial_links, pagination_links, page_k, sel, el,
                   interaction_count, click_num, element_text, L0, earlier,
                   pagination_data, history>>
    /\ UNCHANGED <<besideDisc, dynamic_urls_found>>
    /\ clicked_href' = NoHref

\* handle_infinite_scroll returns (line 382), handle_other_interactions
\* returns list(set(dynamic_links)) (line 355).
ReturnDiscovery ==
    /\ \/ d_pc = "scrolled"
       \/ (d_pc = "scroll" /\ ~ScrollsLeft(scroll_attempt))
    /\ d_pc' = "done"
    /\ dynamic_links' = Distinct(dynamic_links)
    /\ UNCHANGED <<initial_links, current_links, new_links, pagination_links,
                   page_k, sel, el, interaction_count, click_num, element_text,
                   scroll_initial, scroll_attempt, L0, earlier,
                   pagination_data, history>>
    /\ UNCHANGED <<besideDisc, dynamic_urls_found>>
    /\ clicked_href' = NoHref

NextDisc ==
    \/ StartDiscovery
    \/ PaginationClick
    \/ PaginationDone
    \/ VisitElement
    \/ Reclick
    \/ ReclickEnd
    \/ NextSelector
    \/ SelectorsDone
    \/ BudgetSpent
    \/ ScrollStep
    \/ ReturnDiscovery

SpecDisc == InitDisc /\ [][NextDisc]_vars

\* list(set(dynamic_links)) of line 105: the links discovery returns
Discovered == {l \in AllLinks : pagination_links[l] + dynamic_links[l] > 0}

(***************************************************************************)
(* AdvancedComponentAnalyzer.create_page_identifier                        *)
(* (src/advanced_component_analyzer.py, lines 63-91; the same text is      *)
(* HTMLExtractor.create_page_identifier).                                  *)
(***************************************************************************)
\* if len(identifier) > 100: identifier = identifier[:100]
MaxIdentifier == 100

\* the characters \w matches among those of the model
WordChars == Range(UpperChars) \cup Range(LowerChars) \cup Range(DigitChars) \cup {"_"}

\* the characters kept by [^\w\-_.] and by [^\w\-_=&]
PathKeep == WordChars \cup {"-", "."}
QueryKeep == WordChars \cup {"-", "=", "&"}

\* index of the first character of s that is not in cs, or 0
FirstNot(s, cs) ==
    IF \E i \in 1..Len(s) : s[i] \notin cs
    THEN CHOOSE i \in 1..Len(s) : s[i] \notin cs /\ \A j \in 1..(i-1) : s[j] \in cs
    ELSE 0

\* index of the last character of s that is not in cs, or 0
LastNot(s, cs) ==
    IF \E i \in 1..Len(s) : s[i] \notin cs
    THEN CHOOSE i \in 1..Len(s) : s[i] \notin cs /\ \A j \in (i+1)..Len(s) : s[j] \in cs
    ELSE 0

\* str.strip(cs)
Strip(s, cs) ==
    IF FirstNot(s, cs) = 0 THEN << >> ELSE SubSeq(s, FirstNot(s, cs), LastNot(s, cs))

\* re.sub(r'[^keep]', '_', s)
SubOthers(s, keep) == [i \in 1..Len(s) |-> IF s[i] \in keep THEN s[i] ELSE "_"]

\* two texts, each without a run of underscores, joined without one
CollapseJoin(left, right) ==
    IF left # << >> /\ right # << >> /\ left[Len(left)] = "_" /\ right[1] = "_"
    THEN left \o Tail(right)
    ELSE left \o right

\* re.sub(r'_+', '_', s), computed on the two halves of s
RECURSIVE Collapse(_)
Collapse(s) ==
    IF Len(s) <= 1 THEN s
    ELSE CollapseJoin(Collapse(SubSeq(s, 1, Len(s) \div 2)),
                      Collapse(SubSeq(s, Len(s) \div 2 + 1, Len(s))))

HtmlSuffix == <<".","h","t","m","l">>

\* lines 79-80
DropHtml(s) ==
    IF EndsWith(s, HtmlSuffix) THEN SubSeq(s, 1, Len(s) - Len(HtmlSuffix)) ELSE s

\* lines 74-80 for the stripped path
CleanedPath(path) == DropHtml(Strip(Collapse(SubOthers(path, PathKeep)), {"_"}))

\* lines 68-80 for parsed.path
PathIdentifier(path) ==
    IF Strip(path, {"/"}) = << >>
    THEN <<"h","o","m","e","p","a","g","e">>
    ELSE CleanedPath(Strip(path, {"/"}))

\* lines 83-85 for parsed.query
WithQuery(ident, query) ==
    IF query # << >>
    THEN ident \o <<"_","q","u","e","r","y","_">> \o SubOthers(query, QueryKeep)
    ELSE ident

\* lines 88-89
Truncated(ident) ==
    IF Len(ident) > MaxIdentifier THEN SubSeq(ident, 1, MaxIdentifier) ELSE ident

\* the urls given to create_page_identifier: a path and a query on s.io
IdentPaths ==
    { <<>>,
      <<"/">>,
      <<"/","a">>,
      <<"/","a","/","b",".","h","t","m","l">>,
      <<"/","a"," ","b","/","c">>,
      <<"/","_","_","a","_","_">>,
      <<"/","a","%","2","0","b",".","h","t","m","l">>,
      <<"/","x",".","h","t","m">>,
      <<"/",".","h","t","m","l">>,
      <<"/","a","-","b","_","c",".","d","/">>,
      <<"/">> \o [i \in 1..LongPathLen |-> "a"],
      <<"/">> \o [i \in 1..NearPathLen |-> "a"] }

IdentQueries ==
    { <<>>,
      <<"x","=","1">>,
      <<"a","=","1","&","b","=","2">>,
      <<"q","=","a"," ","b">>,
      <<"p","=","/","x">>,
      <<"k">>,
      <<"a","-","b","_","c">> }

IdentUrls ==
    {SubSeq(Home, 1, Len(Home) - 1) \o path \o (IF query = << >> THEN << >> ELSE <<"?">> \o query) :
        path \in IdentPaths, query \in IdentQueries}

InitIdent ==
    /\ OneCrawler(FALSE)
    /\ LinkIdle
    /\ DiscIdle
    /\ IdentIdle
    /\ AnIdle
    /\ CompIdle

\* the variables create_page_identifier does not touch
besideIdent == <<crawlVars, linkVars, discVars, anVars, compVars>>

\* create_page_identifier is called with a url (line 63)
TakeUrl ==
    /\ i_pc = "idle"
    /\ \E url \in IdentUrls : id_url' = url
    /\ i_pc' = "url"
    /\ UNCHANGED <<identifier, besideIdent>>

\* lines 65-80
CleanPath ==
    /\ i_pc = "url"
    /\ identifier' = PathIdentifier(urlparse(id_url).path)
    /\ i_pc' = "path"
    /\ UNCHANGED <<id_url, besideIdent>>

\* lines 83-85
AppendQuery ==
    /\ i_pc = "path"
    /\ identifier' = WithQuery(identifier, urlparse(id_url).query)
    /\ i_pc' = "query"
    /\ UNCHANGED <<id_url, besideIdent>>

\* lines 88-91
ReturnIdentifier ==
    /\ i_pc = "query"
    /\ identifier' = Truncated(identifier)
    /\ i_pc' = "returned"
    /\ UNCHANGED <<id_url, besideIdent>>

NextIdent ==
    \/ TakeUrl
    \/ CleanPath
    \/ AppendQuery
    \/ ReturnIdentifier

SpecIdent == InitIdent /\ [][NextIdent]_vars

(***************************************************************************)
(* AdvancedComponentAnalyzer.analyze_all_urls and its tasks                *)
(* (src/advanced_component_analyzer.py).  The analyzer is run on a url     *)
(* list, may be killed at any point, and is run again on the same list and *)
(* the same output directory.  The pool has more workers than the lists    *)
(* have urls, so every submitted task may run.  Writes to the local disk   *)
(* do not fail; a fetch may fail, and a strategy or the extraction of a    *)
(* component type may raise on the pages.                                  *)
(***************************************************************************)
MaxRuns == 2

\* self.analysis_strategies (lines 35-44), in the order of the dict
analysis_strategies ==
    <<"semantic", "structural", "content_type", "interactive",
      "layout", "seo", "accessibility", "performance">>

\* component_extractions (lines 746-761), in the order of the dict
component_extractions ==
    <<"headers", "navigation", "main_content", "articles", "cards", "forms",
      "tables", "lists", "media", "footers", "sidebars", "modals", "buttons",
      "breadcrumbs">>

PageA == Home \o <<"a","/","b">>
PageB == Home \o <<"a","_","b">>
PageC == Home \o <<"c">>
BadUrl == <<"h","t","t","p",":","/","/","[">>

\* the url lists of crawled_urls.json, as load_urls returns them
UrlLists == { << >>, <<PageA>>, <<PageA, PageB>>, <<PageA, PageC>>, <<BadUrl, PageC>> }

AnalyzerUrls == UNION {Range(l) : l \in UrlLists}

\* create_page_identifier (lines 63-91)
create_page_identifier(url) ==
    Truncated(WithQuery(PathIdentifier(urlparse(url).path), urlparse(url).query))

\* create_page_identifier on every url of the lists (a table of the
\* function, computed once); urlparse raises on a bad netloc
page_ids ==
    [u \in AnalyzerUrls |->
        [raises |-> urlparse(u).raises,
         id |-> IF urlparse(u).raises THEN << >> ELSE create_page_identifier(u)]]

PageIdSet == {page_ids[u].id : u \in {v \in AnalyzerUrls : ~page_ids[v].raises}}

\* the directory self.output_dir itself
Root == <<"." >>

NoAnalysis == [state |-> "absent", url |-> << >>, strategies |-> << >>]

\* a mutant of Exists: the marker is never found
ExistsIgnored(pid) == FALSE

\* analysis_file.exists() (line 1179)
Exists(pid) == analysis_file[pid].state # "absent"

\* the component types of which a page has no element
EmptyTypes(url) == IF url = PageC THEN {"tables", "modals"} ELSE {}

\* the failures the pages may cause: no failure, one strategy raising, every
\* strategy raising, one component type raising
Scenarios ==
    {[throwing |-> {}, bad_types |-> {}]}
    \cup {[throwing |-> {analysis_strategies[i]}, bad_types |-> {}] : i \in 1..Len(analysis_strategies)}
    \cup {[throwing |-> Range(analysis_strategies), bad_types |-> {}]}
    \cup {[throwing |-> {}, bad_types |-> {ty}] : ty \in {"headers", "cards", "breadcrumbs"}}

InitAnalyze ==
    /\ OneCrawler(FALSE)
    /\ LinkIdle
    /\ DiscIdle
    /\ IdentIdle
    /\ CompIdle
    /\ a_pc = "start"
    /\ urls \in UrlLists
    /\ output_dir = {}
    /\ analysis_file = [pid \in PageIdSet |-> NoAnalysis]
    /\ a_tasks = << >>
    /\ fetch_count = 0
    /\ success_count = 0
    /\ failed_count = 0
    /\ run = 1
    /\ present = FALSE
    /\ \E sc \in Scenarios : throwing = sc.throwing /\ bad_types = sc.bad_types

\* the variables the analyzer does not touch
besideAn == <<crawlVars, linkVars, discVars, identVars, compVars>>

pages == <<urls, throwing, bad_types>>

SubmittedTask(url) ==
    [url |-> url, pc |-> "submitted", k |-> 0, strategies |-> << >>, result |-> "none"]

\* analyze_all_urls up to the submission of the tasks (lines 1246-1267)
StartRun ==
    /\ a_pc = "start"
    /\ present' = \A i \in 1..Len(urls) :
                     /\ ~page_ids[urls[i]].raises
                     /\ analysis_file[page_ids[urls[i]].id].state # "absent"
    /\ IF urls = << >>
       THEN a_pc' = "done" /\ a_tasks' = << >>
       ELSE a_pc' = "running" /\ a_tasks' = [i \in 1..Len(urls) |-> SubmittedTask(urls[i])]
    /\ UNCHANGED <<output_dir, analysis_file, fetch_count, success_count,
                   failed_count, run, pages, besideAn>>

\* lines 1172-1182: the identifier, the directory and the skip test
Begin(t) ==
    /\ a_pc = "running"
    /\ t \in 1..Len(a_tasks)
    /\ a_tasks[t].pc = "submitted"
    /\ LET id == page_ids[a_tasks[t].url]
       IN  IF id.raises
           THEN /\ a_tasks' = [a_tasks EXCEPT ![t].pc = "returned", ![t].result = "false"]
                /\ output_dir' = output_dir
           ELSE /\ output_dir' = output_dir \cup {<<id.id, "dir", "">>}
                /\ a_tasks' =
                     IF Exists(id.id)
                     THEN [a_tasks EXCEPT ![t].pc = "returned", ![t].result = "true"]
                     ELSE [a_tasks EXCEPT ![t].pc = "fetch"]
    /\ UNCHANGED <<a_pc, analysis_file, fetch_count, success_count,
                   failed_count, run, present, pages, besideAn>>

\* lines 1185-1186: session.get and raise_for_status
Get(t) ==
    /\ a_pc = "running"
    /\ t \in 1..Len(a_tasks)
    /\ a_tasks[t].pc = "fetch"
    /\ fetch_count' = fetch_count + 1
    /\ \E ok \in BOOLEAN :
          a_tasks' = IF ok
                     THEN [a_tasks EXCEPT ![t].pc = "page"]
                     ELSE [a_tasks EXCEPT ![t].pc = "returned", ![t].result = "false"]
    /\ UNCHANGED <<a_pc, output_dir, analysis_file, success_count,
                   failed_count, run, present, pages, besideAn>>

\* lines 1189-1193: the markup is parsed and page.html is written
SavePage(t) ==
    /\ a_pc = "running"
    /\ t \in 1..Len(a_tasks)
    /\ a_tasks[t].pc = "page"
    /\ output_dir' = output_dir \cup {<<page_ids[a_tasks[t].url].id, "file", "page.html">>}
    /\ a_tasks' = [a_tasks EXCEPT ![t].pc = "components"]
    /\ UNCHANGED <<a_pc, analysis_file, fetch_count, success_count,
                   failed_count, run, present, pages, besideAn>>

\* a mutant of ComponentFiles: no try around the extraction of one type, so
\* the first type that raises ends the loop and no index is made
ComponentFilesUnguarded(bad, empty) ==
    LET n == Len(component_extractions)
        reached == {i \in 1..n : \A j \in 1..i : component_extractions[j] \notin bad}
    IN  {<<"components", component_extractions[i]>> :
            i \in {j \in reached : component_extractions[j] \notin empty}}
        \cup (IF reached = 1..n THEN {<<"file", "component_index.json">>} ELSE {})

\* extract_and_save_html_components (lines 737-775): the directories of the
\* component types saved and the component index
ComponentFiles(bad, empty) ==
    {<<"components", component_extractions[i]>> :
        i \in {j \in 1..Len(component_extractions) :
                  component_extractions[j] \notin bad \cup empty}}
    \cup {<<"file", "component_index.json">>}

\* line 1196
ExtractComponents(t) ==
    /\ a_pc = "running"
    /\ t \in 1..Len(a_tasks)
    /\ a_tasks[t].pc = "components"
    /\ output_dir' = output_dir \cup
          {<<page_ids[a_tasks[t].url].id, f[1], f[2]>> :
              f \in ComponentFiles(bad_types, EmptyTypes(a_tasks[t].url))}
    /\ a_tasks' = [a_tasks EXCEPT ![t].pc = "url_info"]
    /\ UNCHANGED <<a_pc, analysis_file, fetch_count, success_count,
                   failed_count, run, present, pages, besideAn>>

\* lines 1199-1219: url_info.json is written and the combined record is made
SaveUrlInfo(t) ==
    /\ a_pc = "running"
    /\ t \in 1..Len(a_tasks)
    /\ a_tasks[t].pc = "url_info"
    /\ output_dir' = output_dir \cup {<<page_ids[a_tasks[t].url].id, "file", "url_info.json">>}
    /\ a_tasks' = [a_tasks EXCEPT ![t].pc = "strategies", ![t].k = 1]
    /\ UNCHANGED <<a_pc, analysis_file, fetch_count, success_count,
                   failed_count, run, present, pages, besideAn>>

\* comprehensive_analysis['strategies'][name] = entry
WithEntry(strategies, name, entry) ==
    [s \in DOMAIN strategies \cup {name} |-> IF s = name THEN entry ELSE strategies[s]]

AfterStrategy(task) ==
    IF task.k = Len(analysis_strategies)
    THEN [task EXCEPT !.pc = "analysis", !.k = 0]
    ELSE [task EXCEPT !.k = task.k + 1]

\* a mutant of StrategyStep: no try around the strategy, the exception
\* reaches the handler of line 1238
StrategyStepUnguarded(task, name, raises) ==
    IF raises
    THEN [task EXCEPT !.pc = "returned", !.result = "false"]
    ELSE AfterStrategy([task EXCEPT !.strategies =
             WithEntry(task.strategies, name, [error |-> FALSE, strategy |-> name, url |-> task.url])])

\* one iteration of the loop of lines 1221-1232
StrategyStep(task, name, raises) ==
    AfterStrategy([task EXCEPT !.strategies =
        WithEntry(task.strategies, name, [error |-> raises, strategy |-> name, url |-> task.url])])

RunStrategy(t) ==
    /\ a_pc = "running"
    /\ t \in 1..Len(a_tasks)
    /\ a_tasks[t].pc = "strategies"
    /\ LET name == analysis_strategies[a_tasks[t].k]
       IN  /\ a_tasks' = [a_tasks EXCEPT ![t] = StrategyStep(a_tasks[t], name, name \in throwing)]
           /\ output_dir' = IF name \in throwing THEN output_dir
                            ELSE output_dir \cup {<<page_ids[a_tasks[t].url].id, "analysis", name>>}
    /\ UNCHANGED <<a_pc, analysis_file, fetch_count, success_count,
                   failed_count, run, present, pages, besideAn>>

\* line 1235: open(analysis_file, 'w') creates or empties the file
OpenAnalysis(t) ==
    /\ a_pc = "running"
    /\ t \in 1..Len(a_tasks)
    /\ a_tasks[t].pc = "analysis"
    /\ analysis_file' = [analysis_file EXCEPT ![page_ids[a_tasks[t].url].id] =
                            [state |-> "open", url |-> << >>, strategies |-> << >>]]
    /\ a_tasks' = [a_tasks EXCEPT ![t].pc = "dump"]
    /\ UNCHANGED <<a_pc, output_dir, fetch_count, success_count,
                   failed_count, run, present, pages, besideAn>>

\* lines 1236-1241: json.dump of the combined record, return True
DumpAnalysis(t) ==
    /\ a_pc = "running"
    /\ t \in 1..Len(a_tasks)
    /\ a_tasks[t].pc = "dump"
    /\ analysis_file' = [analysis_file EXCEPT ![page_ids[a_tasks[t].url].id] =
                            [state |-> "dumped", url |-> a_tasks[t].url,
                             strategies |-> a_tasks[t].strategies]]
    /\ a_tasks' = [a_tasks EXCEPT ![t].pc = "returned", ![t].result = "true"]
    /\ UNCHANGED <<a_pc, output_dir, fetch_count, success_count,
                   failed_count, run, present, pages, besideAn>>

\* as_completed yields the future and its result is counted (lines 1270-1277)
Complete(t) ==
    /\ a_pc = "running"
    /\ t \in 1..Len(a_tasks)
    /\ a_tasks[t].pc = "returned"
    /\ a_tasks' = [a_tasks EXCEPT ![t].pc = "counted"]
    /\ IF a_tasks[t].result = "true"
       THEN success_count' = success_count + 1 /\ failed_count' = failed_count
       ELSE success_count' = success_count /\ failed_count' = failed_count + 1
    /\ UNCHANGED <<a_pc, output_dir, analysis_file, fetch_count,
                   run, present, pages, besideAn>>

\* every future was counted: generate_comprehensive_summary (lines 1287-1333)
Summary ==
    /\ a_pc = "running"
    /\ \A t \in 1..Len(a_tasks) : a_tasks[t].pc = "counted"
    /\ output_dir' = output_dir \cup {<<Root, "file", "comprehensive_summary.json">>}
    /\ a_pc' = "done"
    /\ UNCHANGED <<analysis_file, a_tasks, fetch_count, success_count,
                   failed_count, run, present, pages, besideAn>>

\* The process ends, killed while it runs or after analyze_all_urls has
\* returned, and the analyzer is started again on the same list and directory.
Restart ==
    /\ a_pc \in {"running", "done"}
    /\ run < MaxRuns
    /\ run' = run + 1
    /\ a_pc' = "start"
    /\ a_tasks' = << >>
    /\ fetch_count' = 0
    /\ success_count' = 0
    /\ failed_count' = 0
    /\ present' = FALSE
    /\ UNCHANGED <<output_dir, analysis_file, pages, besideAn>>

NextAnalyze ==
    \/ StartRun
    \/ \E t \in 1..2 : Begin(t)
    \/ \E t \in 1..2 : Get(t)
    \/ \E t \in 1..2 : SavePage(t)
    \/ \E t \in 1..2 : ExtractComponents(t)
    \/ \E t \in 1..2 : SaveUrlInfo(t)
    \/ \E t \in 1..2 : RunStrategy(t)
    \/ \E t \in 1..2 : OpenAnalysis(t)
    \/ \E t \in 1..2 : DumpAnalysis(t)
    \/ \E t \in 1..2 : Complete(t)
    \/ Summary
    \/ Restart

SpecAnalyze == InitAnalyze /\ [][NextAnalyze]_vars

(***************************************************************************)
(* HTMLExtractor (html_extractor.py).  extract_all submits one task per    *)
(* url and counts the results as analyze_all_urls does (lines 229-253),    *)
(* and create_page_identifier is the same function (lines 49-77); the      *)
(* tasks, the counters and the output directory are the variables of the   *)
(* analyzer.                                                               *)
(***************************************************************************)
\* the keys of the dict components, in the order extract_components sets
\* them (lines 85-144)
html_components ==
    <<"navigation", "main_content", "articles", "cards", "forms", "tables",
      "lists", "footer", "metadata">>

\* the elements the pages have; metadata is set for every page (line 144)
FoundOn(url) ==
    (IF url = PageC THEN {"main_content"} ELSE {"navigation", "forms"}) \cup {"metadata"}

\* components.items() (line 155): the keys set for the page, in order
PageComponents(url) ==
    SelectSeq(html_components, LAMBDA ty : ty \in FoundOn(url))

\* the failures the pages may cause: none, the extraction raising before
\* save_components is called, the writing of one component file raising
ExtractScenarios ==
    {[throwing |-> {}, bad_types |-> {}],
     [throwing |-> {"extract"}, bad_types |-> {}],
     [throwing |-> {}, bad_types |-> {"forms"}],
     [throwing |-> {}, bad_types |-> {"metadata"}]}

InitExtract ==
    /\ OneCrawler(FALSE)
    /\ LinkIdle
    /\ DiscIdle
    /\ IdentIdle
    /\ CompIdle
    /\ a_pc = "start"
    /\ urls \in UrlLists
    /\ output_dir = {}
    /\ analysis_file = [pid \in PageIdSet |-> NoAnalysis]
    /\ a_tasks = << >>
    /\ fetch_count = 0
    /\ success_count = 0
    /\ failed_count = 0
    /\ run = 1
    /\ present = FALSE
    /\ \E sc \in ExtractScenarios : throwing = sc.throwing /\ bad_types = sc.bad_types

\* html_file.exists() (line 189)
HtmlExists(pid) == <<pid, "file", "page.html">> \in output_dir

\* extract_single_url returns True (line 223), the files of dir written
ReturnTrue(t, dir) ==
    /\ a_tasks' = [a_tasks EXCEPT ![t].pc = "returned", ![t].result = "true", ![t].k = 0]
    /\ output_dir' = dir

\* lines 181-191: the identifier, the directory and the skip test
ExtractBegin(t) ==
    /\ a_pc = "running"
    /\ t \in 1..Len(a_tasks)
    /\ a_tasks[t].pc = "submitted"
    /\ LET id == page_ids[a_tasks[t].url]
       IN  IF id.raises
           THEN /\ a_tasks' = [a_tasks EXCEPT ![t].pc = "returned", ![t].result = "false"]
                /\ output_dir' = output_dir
           ELSE /\ output_dir' = output_dir \cup {<<id.id, "dir", "">>}
                /\ a_tasks' =
                     IF HtmlExists(id.id)
                     THEN [a_tasks EXCEPT ![t].pc = "returned", ![t].result = "true"]
                     ELSE [a_tasks EXCEPT ![t].pc = "fetch"]
    /\ UNCHANGED <<a_pc, analysis_file, fetch_count, success_count,
                   failed_count, run, present, pages, besideAn>>

\* lines 194-195: session.get and raise_for_status
ExtractGet(t) ==
    /\ a_pc = "running"
    /\ t \in 1..Len(a_tasks)
    /\ a_tasks[t].pc = "fetch"
    /\ fetch_count' = fetch_count + 1
    /\ \E ok \in BOOLEAN :
          a_tasks' = IF ok
                     THEN [a_tasks EXCEPT ![t].pc = "page"]
                     ELSE [a_tasks EXCEPT ![t].pc = "returned", ![t].result = "false"]
    /\ UNCHANGED <<a_pc, output_dir, analysis_file, success_count,
                   failed_count, run, present, pages, besideAn>>

\* lines 198-202: the markup is parsed and page.html is written
ExtractSavePage(t) ==
    /\ a_pc = "running"
    /\ t \in 1..Len(a_tasks)
    /\ a_tasks[t].pc = "page"
    /\ output_dir' = output_dir \cup {<<page_ids[a_tasks[t].url].id, "file", "page.html">>}
    /\ a_tasks' = [a_tasks EXCEPT ![t].pc = "url_info"]
    /\ UNCHANGED <<a_pc, analysis_file, fetch_count, success_count,
                   failed_count, run, present, pages, besideAn>>

\* lines 205-215: url_info.json is written
ExtractSaveUrlInfo(t) ==
    /\ a_pc = "running"
    /\ t \in 1..Len(a_tasks)
    /\ a_tasks[t].pc = "url_info"
    /\ output_dir' = output_dir \cup {<<page_ids[a_tasks[t].url].id, "file", "url_info.json">>}
    /\ a_tasks' = [a_tasks EXCEPT ![t].pc = "components"]
    /\ UNCHANGED <<a_pc, analysis_file, fetch_count, success_count,
                   failed_count, run, present, pages, besideAn>>

\* extract_components up to the call of save_components (lines 79-147): an
\* exception is logged (lines 149-150) and extract_single_url goes on to
\* return True (line 223)
extract_components(t) ==
    /\ a_pc = "running"
    /\ t \in 1..Len(a_tasks)
    /\ a_tasks[t].pc = "components"
    /\ IF throwing # {}
       THEN ReturnTrue(t, output_dir)
       ELSE /\ a_tasks' = [a_tasks EXCEPT ![t].pc = "save", ![t].k = 1]
            /\ output_dir' = output_dir
    /\ UNCHANGED <<a_pc, analysis_file, fetch_count, success_count,
                   failed_count, run, present, pages, besideAn>>

\* one iteration of the loop of save_components (lines 155-174): the file
\* <type>.json is written; an exception ends the loop and is logged (lines
\* 176-177).  After the last file extract_single_url returns True.
save_components(t) ==
    /\ a_pc = "running"
    /\ t \in 1..Len(a_tasks)
    /\ a_tasks[t].pc = "save"
    /\ LET comps == PageComponents(a_tasks[t].url)
           ty == comps[a_tasks[t].k]
           written == output_dir \cup {<<page_ids[a_tasks[t].url].id, "json", ty>>}
       IN  IF ty \in bad_types
           THEN ReturnTrue(t, output_dir)
           ELSE IF a_tasks[t].k = Len(comps)
                THEN ReturnTrue(t, written)
                ELSE /\ a_tasks' = [a_tasks EXCEPT ![t].k = a_tasks[t].k + 1]
                     /\ output_dir' = written
    /\ UNCHANGED <<a_pc, analysis_file, fetch_count, success_count,
                   failed_count, run, present, pages, besideAn>>

\* every future was counted: extraction_summary.json (lines 262-271)
ExtractSummary ==
    /\ a_pc = "running"
    /\ \A t \in 1..Len(a_tasks) : a_tasks[t].pc = "counted"
    /\ output_dir' = output_dir \cup {<<Root, "file", "extraction_summary.json">>}
    /\ a_pc' = "done"
    /\ UNCHANGED <<analysis_file, a_tasks, fetch_count, success_count,
                   failed_count, run, present, pages, besideAn>>

NextExtract ==
    \/ StartRun
    \/ \E t \in 1..2 : ExtractBegin(t)
    \/ \E t \in 1..2 : ExtractGet(t)
    \/ \E t \in 1..2 : ExtractSavePage(t)
    \/ \E t \in 1..2 : ExtractSaveUrlInfo(t)
    \/ \E t \in 1..2 : extract_components(t)
    \/ \E t \in 1..2 : save_components(t)
    \/ \E t \in 1..2 : Complete(t)
    \/ ExtractSummary
    \/ Restart

SpecExtract == InitExtract /\ [][NextExtract]_vars

(***************************************************************************)
(* The component extractors extract_*_components of                        *)
(* AdvancedComponentAnalyzer (lines 777-1018).  A page is the sequence of  *)
(* its elements in document order; an element is its tag and the text of   *)
(* its class attribute (empty when it has none).                           *)
(***************************************************************************)
MaxElements == 22

\* the elements the pages are made of
Elements ==
    { [tag |-> "div", class |-> <<"C","a","r","d">>],
      [tag |-> "section", class |-> <<"n","e","w","s","-","i","t","e","m">>],
      [tag |-> "span", class |-> <<"c","a","r","d">>],
      [tag |-> "div", class |-> <<>>],
      [tag |-> "form", class |-> <<"f">>],
      [tag |-> "table", class |-> <<>>],
      [tag |-> "div", class |-> <<"h","e","a","d","e","r"," ","n","a","v","b","a","r">>],
      [tag |-> "a", class |-> <<"b","t","n"," ","b","t","n","-","p","r","i","m","a","r","y">>],
      [tag |-> "ul", class |-> <<"n","a","v","-","m","e","n","u">>],
      [tag |-> "img", class |-> <<>>] }

\* a page of n elements, a and b in turn
PageOf(n, a, b) == [i \in 1..n |-> IF i % 2 = 1 THEN a ELSE b]

Pages == {PageOf(n, a, b) : n \in 0..MaxElements, a \in Elements, b \in Elements}

\* For each component type: the prefix of the ids, the tags and the
\* alternatives of the class pattern given to soup.find_all (no alternative:
\* no class_ argument), whether the matches are sliced, and the slice limit.
extractors ==
    [headers |->
        [id |-> "header", tags |-> {"header", "div"},
         class_ |-> {<<"h","e","a","d","e","r">>, <<"t","o","p","-","b","a","r">>, <<"n","a","v","b","a","r">>},
         sliced |-> TRUE, limit |-> 5],
      navigation |->
        [id |-> "navigation", tags |-> {"nav", "ul", "ol"},
         class_ |-> {<<"n","a","v">>, <<"m","e","n","u">>, <<"n","a","v","i","g","a","t","i","o","n">>},
         sliced |-> TRUE, limit |-> 10],
      main_content |->
        [id |-> "main_content", tags |-> {"main", "div"},
         class_ |-> {<<"m","a","i","n">>, <<"c","o","n","t","e","n","t">>, <<"b","o","d","y">>},
         sliced |-> TRUE, limit |-> 3],
      articles |->
        [id |-> "article", tags |-> {"article", "div"},
         class_ |-> {<<"a","r","t","i","c","l","e">>, <<"p","o","s","t">>, <<"b","l","o","g">>, <<"s","t","o","r","y">>, <<"n","e","w","s">>},
         sliced |-> TRUE, limit |-> 10],
      cards |->
        [id |-> "card", tags |-> {"div", "section"},
         class_ |-> {<<"c","a","r","d">>, <<"t","i","l","e">>, <<"i","t","e","m">>, <<"b","o","x">>, <<"p","a","n","e","l">>},
         sliced |-> TRUE, limit |-> 15],
      forms |->
        [id |-> "form", tags |-> {"form"},
         class_ |-> {},
         sliced |-> FALSE, limit |-> 0],
      tables |->
        [id |-> "table", tags |-> {"table"},
         class_ |-> {},
         sliced |-> FALSE, limit |-> 0],
      lists |->
        [id |-> "list", tags |-> {"ul", "ol", "dl"},
         class_ |-> {},
         sliced |-> TRUE, limit |-> 10],
      media |->
        [id |-> "media", tags |-> {"img", "video", "audio", "iframe", "figure"},
         class_ |-> {},
         sliced |-> TRUE, limit |-> 10],
      footers |->
        [id |-> "footer", tags |-> {"footer", "div"},
         class_ |-> {<<"f","o","o","t","e","r">>, <<"b","o","t","t","o","m">>},
         sliced |-> TRUE, limit |-> 3],
      sidebars |->
        [id |-> "sidebar", tags |-> {"aside", "div"},
         class_ |-> {<<"s","i","d","e","b","a","r">>, <<"a","s","i","d","e">>, <<"s","e","c","o","n","d","a","r","y">>},
         sliced |-> TRUE, limit |-> 5],
      modals |->
        [id |-> "modal", tags |-> {"div", "dialog"},
         class_ |-> {<<"m","o","d","a","l">>, <<"d","i","a","l","o","g">>, <<"p","o","p","u","p">>, <<"o","v","e","r","l","a","y">>},
         sliced |-> TRUE, limit |-> 5],
      buttons |->
        [id |-> "button", tags |-> {"button", "input", "a"},
         class_ |-> {<<"b","t","n">>, <<"b","u","t","t","o","n">>},
         sliced |-> TRUE, limit |-> 20],
      breadcrumbs |->
        [id |-> "breadcrumb", tags |-> {"nav", "ol", "ul", "div"},
         class_ |-> {<<"b","r","e","a","d","c","r","u","m","b">>, <<"c","r","u","m","b">>},
         sliced |-> TRUE, limit |-> 3]]

\* re.compile(pattern, re.I).search on the class attribute: one of the
\* alternatives occurs in it, whatever the case
ClassMatches(class, alternatives) ==
    \E alt \in alternatives : Contains(Lower(class), alt)

\* soup.find_all(tags, class_=pattern): the positions of the matching
\* elements, in document order
find_all(page, tags, alternatives) ==
    SortedSeq({i \in 1..Len(page) :
                  /\ page[i].tag \in tags
                  /\ (alternatives = {} \/ ClassMatches(page[i].class, alternatives))})

\* a mutant of Slice: the whole list
SliceAll(matches, limit) == matches

\* matches[:limit]
Slice(matches, limit) == SubSeq(matches, 1, Min(Len(matches), limit))

\* the for loop of an extractor: a record for each match, numbered from 1
Enumerate(page, matches, prefix) ==
    [i \in 1..Len(matches) |->
        [id |-> <<prefix, i>>, at |-> matches[i], tag |-> page[matches[i]].tag,
         classes |-> page[matches[i]].class]]

\* extract_card_components (lines 845-861)
extract_card_components(page) ==
    Enumerate(page,
              Slice(find_all(page, {"div", "section"},
                             {<<"c","a","r","d">>, <<"t","i","l","e">>, <<"i","t","e","m">>,
                              <<"b","o","x">>, <<"p","a","n","e","l">>}),
                    15),
              "card")

\* extract_<type>_components for the type ty
Extractor(ty, page) ==
    IF ty = "cards" THEN extract_card_components(page)
    ELSE IF extractors[ty].sliced
    THEN Enumerate(page,
                   Slice(find_all(page, extractors[ty].tags, extractors[ty].class_),
                         extractors[ty].limit),
                   extractors[ty].id)
    ELSE Enumerate(page, find_all(page, extractors[ty].tags, extractors[ty].class_),
                   extractors[ty].id)

InitComp ==
    /\ OneCrawler(FALSE)
    /\ LinkIdle
    /\ DiscIdle
    /\ IdentIdle
    /\ AnIdle
    /\ c_pc = "idle"
    /\ soup \in Pages
    /\ component_type = "none"
    /\ components = << >>

\* the variables the extractors do not touch
besideComp == <<crawlVars, linkVars, discVars, identVars, anVars>>

\* components = extraction_func(soup, url) (line 766)
CallExtractor ==
    /\ c_pc = "idle"
    /\ \E ty \in Range(component_extractions) :
          /\ component_type' = ty
          /\ components' = Extractor(ty, soup)
    /\ c_pc' = "returned"
    /\ UNCHANGED <<soup, besideComp>>

\* the loop of line 764 goes on to another type
NextType ==
    /\ c_pc = "returned"
    /\ c_pc' = "idle"
    /\ component_type' = "none"
    /\ components' = << >>
    /\ UNCHANGED <<soup, besideComp>>

NextComp ==
    \/ CallExtractor
    \/ NextType

SpecComp == InitComp /\ [][NextComp]_vars

(***************************************************************************)
(* Properties of the crawl.                                                *)
(***************************************************************************)
RecordedUrls == {crawled_data[i].url : i \in 1..Len(crawled_data)}

NoDuplicates(seq) == \A i, j \in 1..Len(seq) : i # j => seq[i] # seq[j]

\* the links found on page p when every fetch succeeds
LinksFound(p) ==
    ValidSet(Hrefs(site, p)) \cup (IF NeedsSelenium(TRUE, p) THEN DynLinks(p) ELSE {})

\* the urls reachable from the urls of S over the links found, S included
RECURSIVE ReachableFrom(_)
ReachableFrom(S) ==
    IF UNION {LinksFound(p) : p \in S} \subseteq S
    THEN S
    ELSE ReachableFrom(S \cup UNION {LinksFound(p) : p \in S})

Reachable == ReachableFrom({base_url})

\* C1: under every interleaving of the tasks of a batch, crawled_data never
\* holds more than max_pages page records.
C1_RecordsWithinCeiling == Len(crawled_data) <= max_pages

\* C1 witness: the ceiling is reached while another task of the batch, which
\* passed the unlocked test of line 501, holds a fetched page to record.
C1_Witness ==
    /\ Len(crawled_data) = max_pages
    /\ \E t \in 1..Len(tasks) : tasks[t].pc = "got"

\* C2 as stated: whenever crawl() returns after fetches that all succeeded,
\* with at least max_pages eligible urls reachable from base_url, it returns
\* exactly max_pages records (in either mode).
C2_Original ==
    (pc = "done" /\ ~anyFail /\ Cardinality(Reachable) >= max_pages)
        => Len(crawled_data) = max_pages

\* C2 amended: crawl() terminates, and in exhaustive mode, when every fetch
\* succeeded and at least max_pages eligible urls are reachable from
\* base_url, it returns exactly max_pages records.
C2_ExactlyMaxPages ==
    /\ <>(pc \in {"done", "raised"})
    /\ []((pc = "done" /\ ~anyFail /\ exhaustive
              /\ Cardinality(Reachable) >= max_pages)
            => Len(crawled_data) = max_pages)

\* C2 witness: an exhaustive crawl of a site with more reachable pages than
\* the ceiling of at least 2 has returned with exactly max_pages records.
C2_Witness ==
    /\ pc = "done" /\ ~anyFail /\ exhaustive
    /\ max_pages >= 2
    /\ Cardinality(Reachable) > max_pages
    /\ Len(crawled_data) = max_pages

\* C3: when every fetch succeeded and more than max_pages pages are
\* reachable, at termination visited_urls holds only the urls that have a
\* page record.
C3_VisitedAreRecorded ==
    (pc = "done" /\ ~anyFail /\ Cardinality(Reachable) > max_pages)
        => visited_urls = RecordedUrls

\* C4: no url is dispatched twice, visited_urls only grows, and its size is
\* the number of dispatches so far.
C4_DispatchOnce ==
    /\ [](/\ NoDuplicates(dispatched)
          /\ Cardinality(visited_urls) = Len(dispatched)
          /\ visited_urls = Range(dispatched))
    /\ [][visited_urls \subseteq visited_urls']_vars

\* C4 witness: after three dispatches a link to an already visited url is
\* met in the results of a task.
C4_Witness ==
    /\ Len(dispatched) >= 3
    /\ pc = "links"
    /\ tasks[cur].ret[link_i] \in visited_urls

\* C5: the frontier queue holds no visited url and no url twice, so no
\* popped entry is skipped and no drawn batch is empty.
C5_QueueFresh ==
    /\ QueuedUrls(url_queue) \cap visited_urls = {}
    /\ NoDuplicates(url_queue)
    /\ ~skippedPop
    /\ ~emptyBatch

\* C5 witness: below the ceiling, the results of a task were processed that
\* hold a link which another page had put in the queue (its entry carries
\* another depth), and the link is in the queue once.
C5_Witness ==
    /\ pc = "wait"
    /\ Len(crawled_data) < max_pages
    /\ \E t \in 1..Len(tasks) :
          /\ tasks[t].pc = "taken"
          /\ \E i \in 1..Len(url_queue) :
                /\ url_queue[i].url \in Range(tasks[t].ret)
                /\ url_queue[i].depth # tasks[t].depth + 1

(***************************************************************************)
(* Properties of the URL classifier.                                       *)
(***************************************************************************)
\* the link loop has judged a joined url
Judged == u_pc = "judged" /\ href # << >>

\* is_valid_url accepted the url: it was appended to links
WasAccepted == absolute_url \in Range(links)

\* skip_extensions of UltraFastCrawler.is_valid_url: the ten extensions
ultra_skip_extensions ==
    skip_extensions \cup { <<".","x","l","s">>, <<".","x","l","s","x">> }

\* C6: every url that is_valid_url accepts, among the candidates urljoin
\* produces, has the site domain as its network location.
C6_DomainContainment ==
    (Judged /\ WasAccepted) => urlparse(absolute_url).netloc = domain

\* C7: is_valid_url rejects every url whose path ends with one of the ten
\* extensions, with or without a query string or fragment after the path.
C7_ExtensionsRejected ==
    (Judged /\ \E e \in ultra_skip_extensions : EndsWith(urlparse(absolute_url).path, e))
        => ~WasAccepted
\* the url contains one of the excluded path substrings
HasSkipPath(url) == \E p \in skip_paths : Contains(url, p)

\* the candidates urljoin produces from the hrefs of the pages
Candidates ==
    {urljoin(pg, h) : pg \in PageBases,
                      h \in {x \in HrefSet : x # << >> /\ ~urlparse(x).raises}}

\* is_valid_url accepts no candidate that contains an excluded substring
ExcludedRejected ==
    \A u \in Candidates : HasSkipPath(u) => ~is_valid_url(u, urlparse(Home).netloc)

\* the link targets of the site whose url contains an excluded substring
ExcludedPages == {p \in AllPages : HasSkipPath(PageUrl(p))}

\* C8 as stated: is_valid_url accepts no url that contains an excluded path
\* substring, on the site domain or not, and so no such url is ever in the
\* frontier queue.
C8_Original ==
    /\ ExcludedRejected
    /\ QueuedUrls(url_queue) \cap ExcludedPages = {}

\* C8 amended: is_valid_url accepts no url that contains an excluded path
\* substring, on the site domain or not, and so the only queue entry that can
\* hold such a url is the seed (base_url, 0), which __init__ enqueues without
\* classifying it.
C8_ExcludedNeverDiscovered ==
    /\ ExcludedRejected
    /\ \A i \in 1..Len(url_queue) :
          url_queue[i].url \in ExcludedPages
              => url_queue[i] = [url |-> base_url, depth |-> 0]

\* C8 witness: the links of a page that links to the /login page were
\* processed, other links of the page were enqueued and the /login page was
\* not.
C8_Witness ==
    /\ pc = "wait"
    /\ \E t \in 1..Len(tasks) :
          /\ tasks[t].pc = "taken"
          /\ LoginPage \in Hrefs(site, tasks[t].url)
          /\ LoginPage \in ExcludedPages
          /\ \E i \in 1..Len(url_queue) :
                /\ url_queue[i].url \in Hrefs(site, tasks[t].url)
                /\ url_queue[i].depth = tasks[t].depth + 1
          /\ LoginPage \notin QueuedUrls(url_queue)

(***************************************************************************)
(* Properties of the dynamic discovery.                                    *)
(***************************************************************************)
\* the click handlers are running
ClickPhase == d_pc \in {"pagination", "other", "reclick"}

\* C9: through the pagination clicks and the generic clicks of one discovery
\* call, which share one cumulative baseline, the links attributed to the
\* last click are exactly the links visible after it minus the initial
\* baseline and minus the links attributed to earlier clicks, and no link is
\* attributed to two clicks.
C9_DeltaAttribution ==
    ClickPhase =>
        /\ new_links = current_links \ (L0 \cup earlier)
        /\ initial_links = L0 \cup earlier \cup new_links
        /\ \A l \in DiscLinks : pagination_links[l] + dynamic_links[l] <= 1

\* C9 witness: with the link sets L0, L0+{a}, L0+{a,b}, a pagination click
\* was attributed {a} and the generic click after it is attributed {b}.
C9_Witness ==
    /\ d_pc = "other"
    /\ L0 = {0}
    /\ earlier = {1}
    /\ pagination_links[1] = 1
    /\ current_links = {0, 1, 2}
    /\ new_links = {2}
    /\ dynamic_links[2] = 1

(***************************************************************************)
(* Properties of the page identifier.                                      *)
(***************************************************************************)
\* C10: the identifier create_page_identifier returns has at most 100
\* characters and holds only word characters, hyphens, underscores and
\* periods, with or without a query string and with or without truncation.
C10_IdentifierClean ==
    i_pc = "returned" =>
        /\ Len(identifier) <= MaxIdentifier
        /\ Range(identifier) \subseteq WordChars \cup {"-", "_", "."}

(***************************************************************************)
(* Properties of the component analyzer.                                   *)
(***************************************************************************)
\* C11: when the analyzer is run on a url list and every url of the list
\* already has its comprehensive_analysis.json in the output directory, the
\* run calls session.get for no url, no task returns False, and when
\* analyze_all_urls returns every url has been counted as a success.
C11_IdempotentResume ==
    present =>
        /\ fetch_count = 0
        /\ \A t \in 1..Len(a_tasks) :
              /\ a_tasks[t].pc \in {"submitted", "returned", "counted"}
              /\ a_tasks[t].result # "false"
        /\ a_pc = "done" => (success_count = Len(urls) /\ failed_count = 0)

C11_Witness ==
    /\ present
    /\ run = 2
    /\ a_pc = "done"
    /\ urls = <<PageA, PageC>>
    /\ success_count = 2
    /\ fetch_count = 0
    /\ \A pid \in {page_ids[PageA].id, page_ids[PageC].id} :
          analysis_file[pid].state = "dumped"

\* the files of a page directory
Files(pid) == {<<f[2], f[3]>> : f \in {g \in output_dir : g[1] = pid}}

\* C12: whenever a page directory holds comprehensive_analysis.json, the
\* test that makes a re-run skip the page, the page was completely
\* processed: the combined record was dumped into the marker, and page.html,
\* url_info.json, the component index and the file of each of the eight
\* strategies have been written.
C12_SkipOnlyComplete ==
    \A pid \in PageIdSet :
        Exists(pid) =>
            /\ analysis_file[pid].state = "dumped"
            /\ {<<"file", "page.html">>, <<"file", "url_info.json">>,
                <<"file", "component_index.json">>} \subseteq Files(pid)
            /\ \A i \in 1..Len(analysis_strategies) :
                  <<"analysis", analysis_strategies[i]>> \in Files(pid)

\* the combined record of a page of url: an entry for each of the eight
\* strategies, the result of the strategy or the error marker if it raises
CombinedRecord(url) ==
    [name \in Range(analysis_strategies) |->
        [error |-> name \in throwing, strategy |-> name, url |-> url]]

\* C13: whichever strategies raise on a page, once the strategy loop is
\* over the combined record has exactly one entry for each of the eight
\* strategy names, the result of every strategy that did not raise and an
\* error marker for every one that raised; that record is what is dumped
\* into comprehensive_analysis.json, and no task returns False once its
\* strategy loop was entered.
C13_StrategyIsolation ==
    /\ \A t \in 1..Len(a_tasks) :
          /\ a_tasks[t].pc \in {"analysis", "dump"} =>
                a_tasks[t].strategies = CombinedRecord(a_tasks[t].url)
          /\ a_tasks[t].pc = "strategies" =>
                /\ DOMAIN a_tasks[t].strategies =
                      {analysis_strategies[i] : i \in 1..(a_tasks[t].k - 1)}
                /\ \A name \in DOMAIN a_tasks[t].strategies :
                      a_tasks[t].strategies[name] = CombinedRecord(a_tasks[t].url)[name]
          /\ a_tasks[t].result = "false" =>
                (a_tasks[t].k = 0 /\ a_tasks[t].strategies = << >>)
    /\ \A pid \in PageIdSet :
          analysis_file[pid].state = "dumped" =>
              analysis_file[pid].strategies = CombinedRecord(analysis_file[pid].url)

C13_Witness ==
    /\ throwing = {"seo"}
    /\ analysis_file[page_ids[PageC].id].state = "dumped"
    /\ analysis_file[page_ids[PageC].id].strategies["seo"].error
    /\ \A name \in Range(analysis_strategies) \ {"seo"} :
          ~analysis_file[page_ids[PageC].id].strategies[name].error
    /\ Cardinality(DOMAIN analysis_file[page_ids[PageC].id].strategies) = 8
    /\ \E t \in 1..Len(a_tasks) : a_tasks[t].url = PageC /\ a_tasks[t].result = "true"

\* the task has left extract_and_save_html_components
PastComponents(task) == task.pc \in {"url_info", "strategies", "analysis", "dump"}

\* C16: when the extraction of a component type raises on a page, every
\* other component type of which the page has elements is still saved and
\* the component index is still created.
C16_TypeIsolation ==
    \A t \in 1..Len(a_tasks) :
        PastComponents(a_tasks[t]) =>
            /\ \A i \in 1..Len(component_extractions) :
                  component_extractions[i] \notin bad_types \cup EmptyTypes(a_tasks[t].url) =>
                      <<"components", component_extractions[i]>>
                          \in Files(page_ids[a_tasks[t].url].id)
            /\ <<"file", "component_index.json">> \in Files(page_ids[a_tasks[t].url].id)

C16_Witness ==
    /\ bad_types = {"cards"}
    /\ urls = <<PageA>>
    /\ Len(a_tasks) = 1
    /\ a_tasks[1].pc = "url_info"
    /\ <<"components", "cards">> \notin Files(page_ids[PageA].id)
    /\ Cardinality({f \in Files(page_ids[PageA].id) : f[1] = "components"}) = 13
    /\ <<"file", "component_index.json">> \in Files(page_ids[PageA].id)

\* the positions of the card-like elements of the page: a div or a section
\* whose class holds card, tile, item, box or panel
CardLike ==
    {i \in 1..Len(soup) :
        /\ soup[i].tag \in extractors.cards.tags
        /\ ClassMatches(soup[i].class, extractors.cards.class_)}

\* C14: on a page with n card-like elements extract_card_components returns
\* min(n, 15) records; record number i has the id card_i and is made from
\* the i-th card-like element in document order.
C14_CardCap ==
    (c_pc = "returned" /\ component_type = "cards") =>
        /\ Len(components) = Min(Cardinality(CardLike), 15)
        /\ \A i \in 1..Len(components) :
              /\ components[i].id = <<"card", i>>
              /\ components[i].at \in CardLike
              /\ Cardinality({j \in CardLike : j < components[i].at}) = i - 1
              /\ components[i].tag = soup[components[i].at].tag

C14_Witness ==
    /\ c_pc = "returned"
    /\ component_type = "cards"
    /\ Len(soup) = 22
    /\ soup[1].tag = "span"
    /\ Cardinality(CardLike) = 11
    /\ Len(components) = 11
    /\ components[11].at = 22

C14_WitnessCapped ==
    /\ c_pc = "returned"
    /\ component_type = "cards"
    /\ Cardinality(CardLike) = 22
    /\ Len(components) = 15
    /\ components[15].id = <<"card", 15>>

\* C15: whatever the page, no extractor of the fourteen component types
\* returns more than 20 records.
C15_EveryTypeCapped ==
    c_pc = "returned" => Len(components) <= 20

(***************************************************************************)
(* Properties of the crawl: failures, sessions, lock, batches.             *)
(***************************************************************************)
\* C17: whatever fails while a URL is fetched (the plain fetch, the creation
\* of the rendered session, the rendered fetch, the release of the session),
\* crawl_single_url returns normally: no future holds an exception and
\* crawl() is never left by one.
C17_FailuresNotRaised ==
    /\ \A t \in 1..Len(tasks) : ~tasks[t].raised
    /\ pc \notin {"unwind", "raised"}

\* C18: every browser session started for a rendered fetch is quit before
\* the task that started it returns: between the rendered fetches no
\* session is open, and none is open when crawl() returns or is left.
C18_SessionsClosed == open_sessions = 0

\* C19: every step that changes crawled_data, all_discovered_links or
\* dynamic_urls_found, the collections the worker tasks write, is made by a
\* task that holds self.lock.
C19_LockDiscipline ==
    [][(\/ crawled_data' # crawled_data
        \/ all_discovered_links' # all_discovered_links
        \/ dynamic_urls_found' # dynamic_urls_found) => lock' # 0]_vars

\* C20: a batch has at most 3 tasks; at most 2 of them (with dynamic
\* discovery) or 3 (without) are executing crawl_single_url at any time;
\* and entries are popped from url_queue and dispatched only when no task
\* of an earlier batch is left: the batch is given up only after every
\* task was taken from as_completed and the loop over its links has ended.
C20_BatchSynchronous ==
    /\ [](/\ Len(tasks) <= 3
          /\ Cardinality({t \in 1..Len(tasks) : Running(t)})
                <= (IF dynamic_discovery THEN 2 ELSE 3)
          /\ pc = "loop" => tasks = << >>)
    /\ [][(Len(url_queue') < Len(url_queue) \/ visited_urls' # visited_urls
              \/ dispatched' # dispatched) => tasks = << >>]_vars
    /\ [][(tasks # << >> /\ tasks' = << >>) =>
              (pc = "wait" /\ \A t \in 1..Len(tasks) : tasks[t].pc = "taken")]_vars

C20_Witness ==
    /\ dynamic_discovery
    /\ Len(tasks) = 3
    /\ Cardinality({t \in 1..Len(tasks) : Running(t)}) = 2
    /\ tasks[3].pc = "queued"
    /\ tasks[1].pc = "selenium"
    /\ pc = "wait"

(***************************************************************************)
(* Properties of the crawl: depth, stops, the url list, the two fetches.   *)
(***************************************************************************)
\* C21: in limited mode the links found on a page at depth >= max_depth are
\* not handed to the link loop, and every frontier entry, every dispatched
\* task and every page record has a depth of at most max_depth.
C21_DepthBounded ==
    ~exhaustive =>
        /\ \A i \in 1..Len(url_queue) : url_queue[i].depth \in 0..max_depth
        /\ \A t \in 1..Len(tasks) :
              /\ tasks[t].depth \in 0..max_depth
              /\ tasks[t].depth >= max_depth => tasks[t].ret = << >>
        /\ \A i \in 1..Len(crawled_data) : crawled_data[i].depth \in 0..max_depth

\* a page at depth max_depth >= 1 was recorded with links, none was returned
C21_Witness ==
    /\ ~exhaustive
    /\ max_depth >= 1
    /\ \E t \in 1..Len(tasks) :
          /\ tasks[t].pc = "done"
          /\ tasks[t].depth = max_depth
          /\ tasks[t].links # << >>
          /\ tasks[t].ret = << >>
    /\ \E i \in 1..Len(crawled_data) : crawled_data[i].depth = max_depth

\* C22: whenever crawl() returns, url_queue is empty or crawled_data holds
\* exactly max_pages records, in both modes and whatever fetches failed; the
\* break of line 555 is never the reason of the return.
C22_HardStops ==
    pc = "done" =>
        /\ url_queue = << >> \/ Len(crawled_data) = max_pages
        /\ ~emptyBatch

\* crawl() returned at the ceiling with entries left in the frontier, after
\* a failed fetch
C22_Witness ==
    /\ pc = "done"
    /\ anyFail
    /\ url_queue # << >>
    /\ Len(crawled_data) = max_pages

\* save_urls_only (lines 581-594): the two url lists of crawled_urls.json,
\* as the sets of their elements (sorted() settles the order only)
save_urls_only ==
    [unique_urls  |-> visited_urls,
     dynamic_urls |-> IF dynamic_urls_found # {} THEN dynamic_urls_found ELSE {}]

\* C23: in the file save_urls_only writes after a crawl, every url of
\* dynamic_urls is also in unique_urls.
C23_DynamicWithinUnique ==
    pc = "done" => save_urls_only.dynamic_urls \subseteq save_urls_only.unique_urls

\* the plain fetch of a task succeeded: line 505 gave it a page record
PlainFetched(task) == task.page # None

\* C24: after the plain fetch the rendered session is used exactly when the
\* plain fetch failed, or the url contains a dynamic indicator, or dynamic
\* discovery was requested, each of the three being sufficient alone.
C24_StrategySelection ==
    [][\A t \in 1..Len(tasks) :
          (t <= Len(tasks') /\ tasks[t].pc = "fetch" /\ tasks'[t].pc # "fetch") =>
             (tasks'[t].pc = "selenium" <=>
                 \/ ~PlainFetched(tasks'[t])
                 \/ tasks[t].url \in SeleniumUrls
                 \/ dynamic_discovery)]_vars

\* C25: a task whose plain fetch succeeded keeps a page record when the
\* rendered fetch it then attempts returns: the record is null only if both
\* fetches failed.
C25_PlainResultKept ==
    [][\A t \in 1..Len(tasks) :
          (/\ t <= Len(tasks')
           /\ tasks[t].pc = "selenium"
           /\ PlainFetched(tasks[t])
           /\ tasks'[t].pc # "selenium"
           /\ ~tasks'[t].raised) => PlainFetched(tasks'[t])]_vars

C27_PaginationOrder ==
    /\ [](d_pc = "pagination" =>
            /\ Len(pagination_data) <= 10
            /\ page_k \in 0..Len(pagination_data)
            /\ \A i \in 1..Len(pagination_data) :
                  /\ IsPageNumber(pagination_data[i])
                  /\ parseInt(pagination_data[i]) \in 2..99
            /\ \A i, j \in 1..Len(pagination_data) :
                  i < j => parseInt(pagination_data[i]) <= parseInt(pagination_data[j]))
    /\ [][(d_pc = "pagination" /\ d_pc' = "pagination") =>
             /\ pagination_data' = pagination_data
             /\ page_k' \in {page_k, page_k + 1}
             /\ new_links' # new_links => page_k' = page_k + 1]_vars

\* ten elements of a page with eleven qualifying ones were visited, the
\* last with the text 11, and a click showed a new link
C27_Witness ==
    /\ d_pc = "pagination"
    /\ page_k = 10
    /\ pagination_data[1] = <<"2">>
    /\ pagination_data[10] = <<"1","1">>
    /\ new_links # {}

\* C28: between the clicks of the pagination phase, and when the phase
\* ends, the rendered session shows the original page state.
C28_BackAtOriginal ==
    d_pc = "pagination" => Shown(history) = "original"

\* C29: handle_other_interactions makes at most 10 clicks in one call, the
\* first clicks and the repeated ones counted together: interaction_count,
\* which every click raises by one, never passes 10.
C29_ClickBudget == interaction_count <= 10

\* the tenth click was a repeated click that showed a new link
C29_Witness ==
    /\ interaction_count = 10
    /\ d_pc = "reclick"
    /\ click_num >= 1

AbsoluteNavigational(h) ==
    /\ h # NoHref
    /\ ~StartsWith(h, <<"#">>)
    /\ ~StartsWith(h, <<"j","a","v","a","s","c","r","i","p","t",":">>)

\* C31: handle_other_interactions never clicks an element whose href is the
\* address of a page (neither a '#' fragment nor a 'javascript:' target),
\* an address on the site of the crawl included.
C31_NoNavigationalClick == ~AbsoluteNavigational(clicked_href)
\* the links a step appends to the list handle_other_interactions returns
Appended == {l \in AllLinks : dynamic_links'[l] > dynamic_links[l]}

\* C32: handle_infinite_scroll scrolls at most 5 times (each scroll is made
\* at a loop index below 5 and a scroll that shows new links moves the index
\* by one), it stops at the first scroll that shows no new link, and every
\* link it appends is visible after the scroll and was in no view before it.
C32_ScrollRule ==
    /\ [](scroll_attempt \in 0..ScrollAttempts)
    /\ [](d_pc = "scroll" => current_links \subseteq scroll_initial)
    /\ [][d_pc = "scroll" /\ d_pc' # "done" =>
             /\ scroll_attempt < ScrollAttempts
             /\ IF Appended # {}
                THEN /\ d_pc' = "scroll"
                     /\ scroll_attempt' = scroll_attempt + 1
                     /\ Appended \subseteq current_links'
                     /\ Appended \cap (scroll_initial \cup current_links) = {}
                ELSE /\ d_pc' = "scrolled"
                     /\ scroll_attempt' = scroll_attempt]_vars
    /\ [][(d_pc = "scrolled" \/ d_pc = "done") => Appended = {}]_vars

\* five scrolls showed new links each, and the page has a link not seen yet
C32_Witness ==
    /\ d_pc = "scroll"
    /\ scroll_attempt = ScrollAttempts
    /\ new_links # {}
    /\ scroll_initial # AllLinks
\* C33: every link discover_dynamic_content returns is absent from the
\* baseline taken at the start of the call (line 91), whichever of the three
\* phases found it.
C33_ReturnedOutsideBaseline == d_pc = "done" => Discovered \cap L0 = {}
(***************************************************************************)
(* Properties of the frontier: the depths of its entries, the records, the *)
(* urls dispatched.                                                        *)
(***************************************************************************)
\* the entry a step appends to url_queue
Enqueued == url_queue'[Len(url_queue')]

\* C34: an entry is appended to url_queue only for a link that the fetch of
\* the future being processed returned, with the depth of that future's
\* page plus one, and the depth of a future's page is the depth of the entry
\* it was drawn from; so also in a batch of pages of different depths whose
\* futures complete out of submission order.
C34_DepthOfParent ==
    /\ [][Len(url_queue') > Len(url_queue) =>
             /\ pc = "links"
             /\ url_queue' = Append(url_queue, Enqueued)
             /\ Enqueued.url = tasks[cur].ret[link_i]
             /\ Enqueued.url \in LinksFound(tasks[cur].url)
             /\ Enqueued.depth = tasks[cur].depth + 1]_vars
    /\ [][pc = "loop" /\ pc' = "wait" =>
             \A t \in 1..Len(tasks') :
                \E k \in 1..Len(url_queue) :
                   /\ url_queue[k].url = tasks'[t].url
                   /\ url_queue[k].depth = tasks'[t].depth]_vars
    /\ [][pc = "wait" /\ pc' = "wait" =>
             \A t \in 1..Len(tasks) :
                /\ tasks'[t].url = tasks[t].url
                /\ tasks'[t].depth = tasks[t].depth]_vars

\* C34 witness: the batch holds d at depth 1 and e at depth 2; e, submitted
\* second, completed first, and its link u was queued at depth 3 while the
\* future of d is still running.
C34_Witness ==
    /\ Len(tasks) = 2
    /\ tasks[1].url = FanD /\ tasks[1].depth = 1
    /\ tasks[2].url = FanE /\ tasks[2].depth = 2
    /\ tasks[1].pc \notin {"done", "taken"}
    /\ tasks[2].pc = "taken"
    /\ url_queue = << [url |-> FanU, depth |-> 3] >>
\* C35: FastWebCrawler.crawl appends an entry to url_queue only with the
\* depth of the page whose fetch returned the link plus one, also when the
\* pages of the batch have different depths.
C35_FastDepthOfParent ==
    [][Len(url_queue') > Len(url_queue) =>
          /\ Enqueued.url = tasks[cur].ret[link_i]
          /\ Enqueued.depth = tasks[cur].depth + 1]_vars
\* C36: crawled_data never holds two records with the same url, the url of
\* every record is in visited_urls, and crawled_data only grows at its end:
\* the records it holds are neither changed nor removed.
C36_RecordOncePerUrl ==
    /\ [](NoDuplicates([i \in 1..Len(crawled_data) |-> crawled_data[i].url]))
    /\ [](RecordedUrls \subseteq visited_urls)
    /\ [][/\ Len(crawled_data') >= Len(crawled_data)
          /\ SubSeq(crawled_data', 1, Len(crawled_data)) = crawled_data]_vars

\* C36 witness: on the site whose pages all link to each other, crawl()
\* returned with three records, each page found by several pages.
C36_Witness ==
    /\ site = "complete"
    /\ pc = "done"
    /\ Len(crawled_data) = 3
    /\ all_discovered_links = Ordinary
\* the links the fetch that made a record returned
LinksOfRecord(r) ==
    Range(IF r.method = "requests" THEN RequestsLinks(r.url) ELSE SeleniumLinks(r.url))

\* C37: in exhaustive mode, when crawl() returns with fewer than max_pages
\* records, every link found on a page that was fetched and recorded has
\* been dispatched, whatever the order in which the tasks completed.
C37_ExhaustiveComplete ==
    (exhaustive /\ pc = "done" /\ Len(crawled_data) < max_pages) =>
        /\ url_queue = << >>
        /\ all_discovered_links \subseteq visited_urls
        /\ \A i \in 1..Len(crawled_data) :
              LinksOfRecord(crawled_data[i]) \subseteq visited_urls

\* C37 witness: an exhaustive crawl returned with two records, below the
\* ceiling of three, after some fetch failed; three links were found.
C37_Witness ==
    /\ exhaustive
    /\ pc = "done"
    /\ max_pages = 3
    /\ Len(crawled_data) = 2
    /\ Cardinality(all_discovered_links) >= 3
    /\ all_discovered_links \subseteq visited_urls
\* the urls within n link hops of the urls of S, S included
RECURSIVE WithinHops(_, _)
WithinHops(S, n) ==
    IF n = 0 THEN S
    ELSE WithinHops(S \cup UNION {LinksFound(p) : p \in S}, n - 1)

\* C38: when a crawl in limited mode returns after fetches that all
\* succeeded, with fewer than max_pages records, the urls dispatched are
\* exactly the eligible urls within max_depth link hops of base_url,
\* whatever the order in which the fetches of a batch completed.
C38_LimitedDeterministic ==
    (pc = "done" /\ ~exhaustive /\ ~anyFail /\ Len(crawled_data) < max_pages)
        => visited_urls = WithinHops({base_url}, max_depth)
\* the task took the skip branch of lines 1179-1181: it returned True
\* without fetching and without analysing
SkippedTask(task) ==
    task.pc \in {"returned", "counted"} /\ task.result = "true" /\ task.strategies = << >>

\* the task is between the skip test and its return: it writes its directory
WritingTask(task) ==
    task.pc \in {"fetch", "page", "components", "url_info", "strategies", "analysis", "dump"}

\* C39: in the first run on an empty output directory no url is reported
\* successful by the skip branch, and no two tasks write the same page
\* directory (as they would if two urls of the list had one identifier).
C39_OneDirectoryPerUrl ==
    run = 1 =>
        /\ \A t \in 1..Len(a_tasks) : ~SkippedTask(a_tasks[t])
        /\ \A t, s \in 1..Len(a_tasks) :
              (t # s /\ WritingTask(a_tasks[t]) /\ WritingTask(a_tasks[s]))
                  => page_ids[a_tasks[t].url].id # page_ids[a_tasks[s].url].id
\* the files extract_single_url writes for the page of url besides page.html
ExpectedFiles(url) ==
    {<<page_ids[url].id, "file", "url_info.json">>}
    \cup {<<page_ids[url].id, "json", ty>> : ty \in FoundOn(url)}

\* C40: whenever the skip marker page.html of a page exists, the page's
\* url_info.json and component files have been written, at every point of
\* the processing; so a run never skips a page whose output is incomplete.
C40_MarkerImpliesComplete ==
    \A i \in 1..Len(urls) :
        (~page_ids[urls[i]].raises /\ HtmlExists(page_ids[urls[i]].id))
            => ExpectedFiles(urls[i]) \subseteq output_dir
====
